---- MODULE Spec2Model ----
(***************************************************************************)
(* Model of the step-wise AST interpreter (engine/executor.js) executing  *)
(* ASTs as produced by the parser (parser.js).                             *)
(*                                                                         *)
(* One ExecutionState is the primary run (the module's variables); runB is *)
(* a second, independent ExecutionState over the same AST and options that *)
(* is only started in SpecDet.                                              *)
(***************************************************************************)
EXTENDS Integers, Sequences, FiniteSets, TLC

VARIABLES
    astNodeMap,     \* state.astNodeMap: node id -> node (read-only after start)
    rootId,         \* programAst.id
    options,        \* this.options
    stepCounter,    \* this.stepCounter
    ipStack,        \* this.ipStack : sequence of frames
    evalStack,      \* this.evalStack : sequence of values
    scopeStack,     \* this.scopeStack : sequence of scopes
    trace,          \* this.trace : sequence of events
    status,         \* this.status
    lastError,      \* this.lastError (its code; "" for null)
    stats,          \* this.stats
    calls,          \* observer: number of step() calls made by the caller
    nonNullResults, \* observer: number of those calls that returned non-null
    lastResult,     \* observer: outcome of the latest step() call
    entrySnaps,     \* observer: per live nested scope, the state at its entry
    runB,           \* a second ExecutionState (record), see SpecDet
    NODE_ID,        \* the parser module's id counter (let NODE_ID)
    parseLog,       \* observer: the parse() calls made so far, with their outcomes
    heap,           \* the objects of the debugger page: a reference is an index
    executionState, \* ui/debugger.js: let executionState (a reference, 0 for null)
    stateHistory,   \* ui/debugger.js: let stateHistory (a sequence of references)
    uiLog           \* observer: the last two handlers run and the state before
                    \* the latest handleStep

vars == <<astNodeMap, rootId, options, stepCounter, ipStack, evalStack,
          scopeStack, trace, status, lastError, stats, calls, nonNullResults,
          lastResult, entrySnaps, runB, NODE_ID, parseLog, heap, executionState,
          stateHistory, uiLog>>

\* the variables of the debugger page
uiVars == <<heap, executionState, stateHistory, uiLog>>

-----------------------------------------------------------------------------
(* Bounds of the model *)

\* the caller makes at most this many step() calls on one ExecutionState
MaxCalls == 24
\* the caller makes at most this many parse() calls
MaxParseCalls == 3
\* explicit maxSteps options explored: 1 .. StepLimitBound (and the default)
StepLimitBound == 11
\* explicit maxTraceLength options explored: 1 .. TraceLimitBound (and the default)
TraceLimitBound == 8
\* explicit maxScopeDepth options explored: 1 .. ScopeLimitBound (and the default)
ScopeLimitBound == 2

(* Option defaults of ExecutionState *)
DefaultMaxSteps == 10000
DefaultMaxScopeDepth == 100
DefaultMaxTraceLength == 50000

-----------------------------------------------------------------------------
(* Values.  A JavaScript value of the interpreter is a record               *)
(*   k : "number" | "string" | "boolean" | "null" | "undefined"             *)
(*   n, d : a number is the extended rational n/d (d = 1 for integers;      *)
(*          d = 0 encodes Infinity (n = 1), -Infinity (n = -1), NaN (n = 0))*)
(*          a boolean is n = 1 (true) or n = 0 (false)                      *)
(*   s : a string is the sequence of its characters                         *)

Num(n) == [k |-> "number", n |-> n, d |-> 1, s |-> <<>>]
Rat(n, d) == [k |-> "number", n |-> n, d |-> d, s |-> <<>>]
Str(s) == [k |-> "string", n |-> 0, d |-> 1, s |-> s]
Bool(b) == [k |-> "boolean", n |-> IF b THEN 1 ELSE 0, d |-> 1, s |-> <<>>]
Null == [k |-> "null", n |-> 0, d |-> 1, s |-> <<>>]
Undefined == [k |-> "undefined", n |-> 0, d |-> 1, s |-> <<>>]
NaN == Rat(0, 0)
PosInf == Rat(1, 0)
NegInf == Rat(-1, 0)
\* marks an Event field that the Event does not carry
Absent == [k |-> "absent", n |-> 0, d |-> 1, s |-> <<>>]

ValueKinds == {"number", "string", "boolean", "null"}

-----------------------------------------------------------------------------
(* AST nodes as makeNode builds them.  Children are held by node id, 0 for  *)
(* null.  Every node record has all fields; a node type uses its own.       *)

NoNode ==
    [type |-> "", id |-> 0, body |-> <<>>, kind |-> "", declName |-> "",
     declId |-> 0, init |-> 0, expression |-> 0, operator |-> "", left |-> 0,
     right |-> 0, name |-> "", value |-> Absent, test |-> 0, consequent |-> 0,
     alternate |-> 0, argument |-> 0, update |-> 0, loopBody |-> 0]

MkNode(type, id, props) == props @@ [type |-> type, id |-> id] @@ NoNode

Literal(id, v) == MkNode("Literal", id, [value |-> v])
Identifier(id, name) == MkNode("Identifier", id, [name |-> name])
BinaryExpression(id, op, l, r) ==
    MkNode("BinaryExpression", id, [operator |-> op, left |-> l, right |-> r])
UnaryExpression(id, op, arg) ==
    MkNode("UnaryExpression", id, [operator |-> op, argument |-> arg])
\* left is the Identifier node of the target, name its name
AssignmentExpression(id, l, name, r) ==
    MkNode("AssignmentExpression", id,
           [operator |-> "=", left |-> l, name |-> name, right |-> r])
\* declarations[0] = {id: Identifier(declId, declName), init}
VariableDeclaration(id, kind, declId, declName, init) ==
    MkNode("VariableDeclaration", id,
           [kind |-> kind, declId |-> declId, declName |-> declName, init |-> init])
ExpressionStatement(id, e) == MkNode("ExpressionStatement", id, [expression |-> e])
AssignmentStatement(id, e) == MkNode("AssignmentStatement", id, [expression |-> e])
BlockStatement(id, body) == MkNode("BlockStatement", id, [body |-> body])
IfStatement(id, t, c, a) ==
    MkNode("IfStatement", id, [test |-> t, consequent |-> c, alternate |-> a])
\* the single body statement of a loop is held in loopBody
WhileStatement(id, t, b) == MkNode("WhileStatement", id, [test |-> t, loopBody |-> b])
ForStatement(id, i, t, u, b) ==
    MkNode("ForStatement", id, [init |-> i, test |-> t, update |-> u, loopBody |-> b])
Program(id, body) == MkNode("Program", id, [body |-> body])

-----------------------------------------------------------------------------
(* The ASTs executed.  Each is the AST parse() returns for the source given *)
(* in its comment: the sequence of its nodes by id (ids are allocated from  *)
(* 1 in the order of the makeNode calls), the Program node being the last.  *)

\* let x = 5;
AstLetX5 ==
    << Literal(1, Num(5)), Identifier(2, "x"),
       VariableDeclaration(3, "let", 2, "x", 1), Program(4, <<3>>) >>
\* let x; x = 7;
AstDeclThenAssign ==
    << Identifier(1, "x"), VariableDeclaration(2, "let", 1, "x", 0),
       Literal(3, Num(7)), Identifier(4, "x"), AssignmentExpression(5, 4, "x", 3),
       AssignmentStatement(6, 5), Program(7, <<2, 6>>) >>
\* let y = 1 + 2;
AstBinary ==
    << Literal(1, Num(1)), Literal(2, Num(2)), BinaryExpression(3, "+", 1, 2),
       Identifier(4, "y"), VariableDeclaration(5, "let", 4, "y", 3),
       Program(6, <<5>>) >>
\* let x = 2; let z = x;
AstLookup ==
    << Literal(1, Num(2)), Identifier(2, "x"), VariableDeclaration(3, "let", 2, "x", 1),
       Identifier(4, "x"), Identifier(5, "z"), VariableDeclaration(6, "let", 5, "z", 4),
       Program(7, <<3, 6>>) >>
\* let x = 1; { let x = 2; }
AstShadow ==
    << Literal(1, Num(1)), Identifier(2, "x"), VariableDeclaration(3, "let", 2, "x", 1),
       Literal(4, Num(2)), Identifier(5, "x"), VariableDeclaration(6, "let", 5, "x", 4),
       BlockStatement(7, <<6>>), Program(8, <<3, 7>>) >>
\* x = 1;
AstUndeclared ==
    << Literal(1, Num(1)), Identifier(2, "x"), AssignmentExpression(3, 2, "x", 1),
       AssignmentStatement(4, 3), Program(5, <<4>>) >>
\* const c = 1; c = 2;
AstConstReassign ==
    << Literal(1, Num(1)), Identifier(2, "c"), VariableDeclaration(3, "const", 2, "c", 1),
       Literal(4, Num(2)), Identifier(5, "c"), AssignmentExpression(6, 5, "c", 4),
       AssignmentStatement(7, 6), Program(8, <<3, 7>>) >>
\* let x = 1; { x = 2; }
AstInnerAssign ==
    << Literal(1, Num(1)), Identifier(2, "x"), VariableDeclaration(3, "let", 2, "x", 1),
       Literal(4, Num(2)), Identifier(5, "x"), AssignmentExpression(6, 5, "x", 4),
       AssignmentStatement(7, 6), BlockStatement(8, <<7>>), Program(9, <<3, 8>>) >>
\* let x = 1; let x = 2;
AstRedeclare ==
    << Literal(1, Num(1)), Identifier(2, "x"), VariableDeclaration(3, "let", 2, "x", 1),
       Literal(4, Num(2)), Identifier(5, "x"), VariableDeclaration(6, "let", 5, "x", 4),
       Program(7, <<3, 6>>) >>
\* { { let a = 1; } }
AstNested ==
    << Literal(1, Num(1)), Identifier(2, "a"), VariableDeclaration(3, "let", 2, "a", 1),
       BlockStatement(4, <<3>>), BlockStatement(5, <<4>>), Program(6, <<5>>) >>
\* if (true) { } else { }
AstIfElse ==
    << Literal(1, Bool(TRUE)), BlockStatement(2, <<>>), BlockStatement(3, <<>>),
       IfStatement(4, 1, 2, 3), Program(5, <<4>>) >>
\* if (null) 1;
AstIfSkip ==
    << Literal(1, Null), Literal(2, Num(1)), ExpressionStatement(3, 2),
       IfStatement(4, 1, 3, 0), Program(5, <<4>>) >>
\* while (true) { }
AstWhile ==
    << Literal(1, Bool(TRUE)), BlockStatement(2, <<>>), WhileStatement(3, 1, 2),
       Program(4, <<3>>) >>
\* for (;;) { }
AstFor ==
    << BlockStatement(1, <<>>), ForStatement(2, 0, 0, 0, 1), Program(3, <<2>>) >>
\* y;
AstUseUndeclared ==
    << Identifier(1, "y"), ExpressionStatement(2, 1), Program(3, <<2>>) >>
\* let q = 4 / 0;
AstDivZero ==
    << Literal(1, Num(4)), Literal(2, Num(0)), BinaryExpression(3, "/", 1, 2),
       Identifier(4, "q"), VariableDeclaration(5, "let", 4, "q", 3),
       Program(6, <<5>>) >>
\* let q = 4 % 0;
AstModZero ==
    << Literal(1, Num(4)), Literal(2, Num(0)), BinaryExpression(3, "%", 1, 2),
       Identifier(4, "q"), VariableDeclaration(5, "let", 4, "q", 3),
       Program(6, <<5>>) >>
\* let x; let y = x;
AstReadUninit ==
    << Identifier(1, "x"), VariableDeclaration(2, "let", 1, "x", 0),
       Identifier(3, "x"), Identifier(4, "y"), VariableDeclaration(5, "let", 4, "y", 3),
       Program(6, <<2, 5>>) >>
\* (the empty source)
AstEmpty == << Program(1, <<>>) >>
\* let a = !1;
AstUnary ==
    << Literal(1, Num(1)), UnaryExpression(2, "!", 1), Identifier(3, "a"),
       VariableDeclaration(4, "let", 3, "a", 2), Program(5, <<4>>) >>
\* const c; c = 1; c = 2;
AstConstLate ==
    << Identifier(1, "c"), VariableDeclaration(2, "const", 1, "c", 0),
       Literal(3, Num(1)), Identifier(4, "c"), AssignmentExpression(5, 4, "c", 3),
       AssignmentStatement(6, 5),
       Literal(7, Num(2)), Identifier(8, "c"), AssignmentExpression(9, 8, "c", 7),
       AssignmentStatement(10, 9), Program(11, <<2, 6, 10>>) >>

\* let x = 1; { let x = 2; x; }
AstShadowRead ==
    << Literal(1, Num(1)), Identifier(2, "x"), VariableDeclaration(3, "let", 2, "x", 1),
       Literal(4, Num(2)), Identifier(5, "x"), VariableDeclaration(6, "let", 5, "x", 4),
       Identifier(7, "x"), ExpressionStatement(8, 7), BlockStatement(9, <<6, 8>>),
       Program(10, <<3, 9>>) >>
\* let x = 1; { x; }
AstOuterRead ==
    << Literal(1, Num(1)), Identifier(2, "x"), VariableDeclaration(3, "let", 2, "x", 1),
       Identifier(4, "x"), ExpressionStatement(5, 4), BlockStatement(6, <<5>>),
       Program(7, <<3, 6>>) >>
\* let a = 0 && 1;
AstAndFalsy ==
    << Literal(1, Num(0)), Literal(2, Num(1)), BinaryExpression(3, "&&", 1, 2),
       Identifier(4, "a"), VariableDeclaration(5, "let", 4, "a", 3),
       Program(6, <<5>>) >>
\* let b = 1 || 2;
AstOrTruthy ==
    << Literal(1, Num(1)), Literal(2, Num(2)), BinaryExpression(3, "||", 1, 2),
       Identifier(4, "b"), VariableDeclaration(5, "let", 4, "b", 3),
       Program(6, <<5>>) >>
\* 1 * 2 - 3 * 4;
AstBinaryNested ==
    << Literal(1, Num(1)), Literal(2, Num(2)), BinaryExpression(3, "*", 1, 2),
       Literal(4, Num(3)), Literal(5, Num(4)), BinaryExpression(6, "*", 4, 5),
       BinaryExpression(7, "-", 3, 6), ExpressionStatement(8, 7), Program(9, <<8>>) >>
\* if (0) 1; else 2;
AstIfElseFalsy ==
    << Literal(1, Num(0)), Literal(2, Num(1)), ExpressionStatement(3, 2),
       Literal(4, Num(2)), ExpressionStatement(5, 4), IfStatement(6, 1, 3, 5),
       Program(7, <<6>>) >>
\* if (1) 1; else 2;
AstIfThen ==
    << Literal(1, Num(1)), Literal(2, Num(1)), ExpressionStatement(3, 2),
       Literal(4, Num(2)), ExpressionStatement(5, 4), IfStatement(6, 1, 3, 5),
       Program(7, <<6>>) >>

\* let a = b = 1;
AstAssignInit ==
    << Literal(1, Num(1)), Identifier(2, "b"), AssignmentExpression(3, 2, "b", 1),
       Identifier(4, "a"), VariableDeclaration(5, "let", 4, "a", 3),
       Program(6, <<5>>) >>

Asts ==
    { AstLetX5, AstDeclThenAssign, AstBinary, AstLookup, AstShadow, AstUndeclared,
      AstConstReassign, AstInnerAssign, AstRedeclare, AstNested, AstIfElse,
      AstIfSkip, AstWhile, AstFor, AstUseUndeclared, AstDivZero, AstEmpty,
      AstUnary, AstConstLate, AstShadowRead, AstOuterRead, AstAndFalsy,
      AstOrTruthy, AstBinaryNested, AstIfElseFalsy, AstIfThen, AstAssignInit,
      AstModZero, AstReadUninit }

\* ids are positions: the node with id i is the i-th node created
AstWellFormed(a) == \A i \in 1..Len(a) : a[i].id = i

OptionChoices ==
    [maxSteps : (1..StepLimitBound) \cup {DefaultMaxSteps},
     maxScopeDepth : (1..ScopeLimitBound) \cup {DefaultMaxScopeDepth},
     maxTraceLength : (1..TraceLimitBound) \cup {DefaultMaxTraceLength}]

-----------------------------------------------------------------------------
(* The host operators applied by executeBinaryExpression, over the values   *)
(* above.  Numbers are exact (extended rationals), negative zero is not     *)
(* distinguished from zero.                                                 *)

Abs(n) == IF n < 0 THEN -n ELSE n
Sign(n) == IF n < 0 THEN -1 ELSE IF n > 0 THEN 1 ELSE 0

RECURSIVE Gcd(_, _)
Gcd(a, b) == IF b = 0 THEN a ELSE Gcd(b, a % b)

\* the number n/d in lowest terms with a positive denominator
Norm(n, d) ==
    IF d = 0 THEN Rat(Sign(n), 0)
    ELSE LET g == Gcd(Abs(n), Abs(d))
         IN  Rat(Sign(d) * (n \div g), Abs(d) \div g)

IsNaN(v) == v.d = 0 /\ v.n = 0
IsInf(v) == v.d = 0 /\ v.n # 0
IsZero(v) == v.d # 0 /\ v.n = 0

\* characters of the strings the ASTs use, in code-unit order
Alphabet == << " ", "0", "1", "2", "3", "4", "5", "6", "7", "8", "9", "a", "b" >>
Digits == << "0", "1", "2", "3", "4", "5", "6", "7", "8", "9" >>
CharCode(c) == CHOOSE i \in 1..Len(Alphabet) : Alphabet[i] = c
DigitVal(c) == (CHOOSE i \in 1..10 : Digits[i] = c) - 1
IsDigitChar(c) == \E i \in 1..10 : Digits[i] = c

RECURSIVE TrimLeft(_)
TrimLeft(s) == IF s # <<>> /\ Head(s) = " " THEN TrimLeft(Tail(s)) ELSE s
RECURSIVE TrimRight(_)
TrimRight(s) ==
    IF s # <<>> /\ s[Len(s)] = " " THEN TrimRight(SubSeq(s, 1, Len(s) - 1)) ELSE s

RECURSIVE DigitsToNat(_)
DigitsToNat(s) ==
    IF s = <<>> THEN 0
    ELSE 10 * DigitsToNat(SubSeq(s, 1, Len(s) - 1)) + DigitVal(s[Len(s)])

\* Number(string) for strings of blanks and decimal digits; other strings give NaN
StrToNum(s) ==
    LET t == TrimRight(TrimLeft(s))
    IN  IF t = <<>> THEN Num(0)
        ELSE IF \A i \in 1..Len(t) : IsDigitChar(t[i]) THEN Num(DigitsToNat(t))
        ELSE NaN

RECURSIVE NatToDigits(_)
NatToDigits(n) ==
    IF n < 10 THEN << Digits[n + 1] >>
    ELSE NatToDigits(n \div 10) \o << Digits[(n % 10) + 1] >>

ToNumber(v) ==
    CASE v.k = "number" -> v
      [] v.k = "boolean" -> Num(v.n)
      [] v.k = "null" -> Num(0)
      [] v.k = "string" -> StrToNum(v.s)
      [] OTHER -> NaN

\* String(v); a number that is not an integer is written as numerator/denominator
ToStr(v) ==
    CASE v.k = "string" -> v.s
      [] v.k = "boolean" -> IF v.n = 1 THEN <<"t", "r", "u", "e">>
                            ELSE <<"f", "a", "l", "s", "e">>
      [] v.k = "null" -> <<"n", "u", "l", "l">>
      [] v.k = "undefined" -> <<"u", "n", "d", "e", "f", "i", "n", "e", "d">>
      [] v.k = "number" ->
            IF IsNaN(v) THEN <<"N", "a", "N">>
            ELSE IF IsInf(v) THEN
                (IF v.n < 0 THEN <<"-">> ELSE <<>>)
                    \o <<"I", "n", "f", "i", "n", "i", "t", "y">>
            ELSE (IF v.n < 0 THEN <<"-">> ELSE <<>>) \o NatToDigits(Abs(v.n))
                    \o (IF v.d = 1 THEN <<>> ELSE <<"/">> \o NatToDigits(v.d))
      [] OTHER -> <<>>

NumAdd(a, b) ==
    IF IsNaN(a) \/ IsNaN(b) THEN NaN
    ELSE IF IsInf(a) /\ IsInf(b) THEN (IF a.n = b.n THEN a ELSE NaN)
    ELSE IF IsInf(a) THEN a
    ELSE IF IsInf(b) THEN b
    ELSE Norm(a.n * b.d + b.n * a.d, a.d * b.d)
NumNeg(a) == Rat(-a.n, a.d)
NumSub(a, b) == NumAdd(a, NumNeg(b))
NumMul(a, b) ==
    IF IsNaN(a) \/ IsNaN(b) THEN NaN ELSE Norm(a.n * b.n, a.d * b.d)
NumDiv(a, b) ==
    IF IsNaN(a) \/ IsNaN(b) THEN NaN
    ELSE IF IsInf(a) THEN (IF IsInf(b) THEN NaN
                           ELSE Rat(a.n * (IF b.n < 0 THEN -1 ELSE 1), 0))
    ELSE IF IsInf(b) THEN Num(0)
    ELSE IF IsZero(b) THEN Rat(Sign(a.n), 0)
    ELSE Norm(a.n * b.d, a.d * b.n)
\* truncation toward zero of a finite number
Trunc(a) == Num(Sign(a.n) * (Abs(a.n) \div a.d))
NumMod(a, b) ==
    IF IsNaN(a) \/ IsNaN(b) \/ IsInf(a) \/ IsZero(b) THEN NaN
    ELSE IF IsInf(b) THEN a
    ELSE NumSub(a, NumMul(b, Trunc(NumDiv(a, b))))
NumLt(a, b) ==
    IF IsNaN(a) \/ IsNaN(b) THEN FALSE
    ELSE IF IsInf(a) /\ IsInf(b) THEN a.n < b.n
    ELSE a.n * b.d < b.n * a.d
NumEq(a, b) == ~IsNaN(a) /\ ~IsNaN(b) /\ a = b

RECURSIVE StrLt(_, _)
StrLt(a, b) ==
    IF b = <<>> THEN FALSE
    ELSE IF a = <<>> THEN TRUE
    ELSE IF Head(a) = Head(b) THEN StrLt(Tail(a), Tail(b))
    ELSE CharCode(Head(a)) < CharCode(Head(b))

\* Boolean(v)
Truthy(v) ==
    CASE v.k = "number" -> ~IsNaN(v) /\ ~IsZero(v)
      [] v.k = "string" -> v.s # <<>>
      [] v.k = "boolean" -> v.n = 1
      [] OTHER -> FALSE

\* left === right
StrictEquals(l, r) ==
    /\ l.k = r.k
    /\ IF l.k = "number" THEN NumEq(l, r) ELSE l = r

\* left == right
LooseEquals(l, r) ==
    LET nullish(v) == v.k \in {"null", "undefined"}
    IN  IF l.k = r.k THEN StrictEquals(l, r)
        ELSE IF nullish(l) \/ nullish(r) THEN nullish(l) /\ nullish(r)
        ELSE NumEq(ToNumber(l), ToNumber(r))

\* left < right
LessThan(l, r) ==
    IF l.k = "string" /\ r.k = "string" THEN StrLt(l.s, r.s)
    ELSE NumLt(ToNumber(l), ToNumber(r))
\* left <= right
LessEq(l, r) ==
    IF l.k = "string" /\ r.k = "string" THEN ~StrLt(r.s, l.s)
    ELSE LET a == ToNumber(l)
             b == ToNumber(r)
         IN  ~IsNaN(a) /\ ~IsNaN(b) /\ ~NumLt(b, a)

Operators ==
    {"+", "-", "*", "/", "%", "<", ">", "<=", ">=", "==", "!=", "===", "!==",
     "&&", "||"}

\* the result of the operator switch for an operator that does not fault
ApplyOperator(op, left, right) ==
    CASE op = "+" -> IF left.k = "string" \/ right.k = "string"
                     THEN Str(ToStr(left) \o ToStr(right))
                     ELSE NumAdd(ToNumber(left), ToNumber(right))
      [] op = "-" -> NumSub(ToNumber(left), ToNumber(right))
      [] op = "*" -> NumMul(ToNumber(left), ToNumber(right))
      [] op = "/" -> NumDiv(ToNumber(left), ToNumber(right))
      [] op = "%" -> NumMod(ToNumber(left), ToNumber(right))
      [] op = "<" -> Bool(LessThan(left, right))
      [] op = ">" -> Bool(LessThan(right, left))
      [] op = "<=" -> Bool(LessEq(left, right))
      [] op = ">=" -> Bool(LessEq(right, left))
      [] op = "==" -> Bool(LooseEquals(left, right))
      [] op = "!=" -> Bool(~LooseEquals(left, right))
      [] op = "===" -> Bool(StrictEquals(left, right))
      [] op = "!==" -> Bool(~StrictEquals(left, right))
      [] op = "&&" -> IF Truthy(left) THEN right ELSE left
      [] op = "||" -> IF Truthy(left) THEN left ELSE right

-----------------------------------------------------------------------------
(* ExecutionState.  The methods below are functions from the state of one   *)
(* ExecutionState (a record r of its fields) to its state after the call.   *)
(* r.threw records that the current step() call has raised a host           *)
(* exception: whatever the code would have executed after the raise is      *)
(* skipped, so every method leaves a state with r.threw unchanged.          *)

EmptyBindings == [n \in {} |-> 0]

\* an Event carries all fields; those its type does not set stay at these values
NoEvent ==
    [type |-> "", step |-> 0, nodeId |-> 0, nodeType |-> "", scopeId |-> -1,
     code |-> "", message |-> "", name |-> "", value |-> Absent,
     oldValue |-> Absent, newValue |-> Absent, kind |-> "", bindingNodeId |-> 0,
     operator |-> "", left |-> Absent, right |-> Absent, foundInScopeId |-> -1,
     parentScopeId |-> -1, reason |-> "", testValue |-> Absent, direction |-> ""]

createScope(r, parentScopeId) ==
    [id |-> Len(r.scopeStack), parentId |-> parentScopeId, bindings |-> EmptyBindings]

currentScope(r) == r.scopeStack[Len(r.scopeStack)]

\* the top frame's index in ipStack, 0 when there is no frame
currentFrame(r) == Len(r.ipStack)

\* emitEvent with the Event's step index read from a counter that all
\* ExecutionState instances share instead of this.stepCounter
emitEvent_SharedStep(r, type, fields) ==
    IF r.threw THEN r
    ELSE IF Len(r.trace) >= options.maxTraceLength
    THEN [r EXCEPT !.status = "error", !.lastError = "trace-overflow", !.threw = TRUE]
    ELSE [r EXCEPT !.trace =
            Append(@, fields @@ [type |-> type, step |-> calls + runB.calls] @@ NoEvent)]

\* emitEvent on a full trace calls error(), which calls emitEvent again on the
\* still full trace, and so on without end: the call raises RangeError after
\* error() has set status and lastError
emitEvent(r, type, fields) ==
    IF r.threw THEN r
    ELSE IF Len(r.trace) >= options.maxTraceLength
    THEN [r EXCEPT !.status = "error", !.lastError = "trace-overflow", !.threw = TRUE]
    ELSE [r EXCEPT !.trace =
            Append(@, fields @@ [type |-> type, step |-> r.stepCounter] @@ NoEvent)]

error(r, code, message) ==
    IF r.threw THEN r
    ELSE LET r1 == [r EXCEPT !.status = "error", !.lastError = code]
             fi == currentFrame(r)
         IN  emitEvent(r1, "error",
                [nodeId |-> IF fi > 0 THEN r.ipStack[fi].nodeId ELSE 0,
                 nodeType |-> IF fi > 0 THEN r.ipStack[fi].nodeType ELSE "",
                 scopeId |-> currentScope(r).id,
                 code |-> code, message |-> message])

\* (mutant) pushScope whose depth test lets one scope too many through
pushScope_OneTooMany(r, reason) ==
    IF r.threw THEN r
    ELSE IF Len(r.scopeStack) > options.maxScopeDepth
    THEN error(r, "max-depth", "Scope stack max depth exceeded")
    ELSE LET parent == currentScope(r)
             newScope == createScope(r, parent.id)
             r1 == [r EXCEPT !.scopeStack = Append(@, newScope),
                             !.stats.peakScopeDepth =
                                 IF @ > Len(r.scopeStack) + 1 THEN @
                                 ELSE Len(r.scopeStack) + 1]
         IN  emitEvent(r1, "enter-scope",
                [scopeId |-> newScope.id, parentScopeId |-> parent.id,
                 reason |-> reason])

pushScope(r, reason) ==
    IF r.threw THEN r
    ELSE IF Len(r.scopeStack) >= options.maxScopeDepth
    THEN error(r, "max-depth", "Scope stack max depth exceeded")
    ELSE LET parent == currentScope(r)
             newScope == createScope(r, parent.id)
             r1 == [r EXCEPT !.scopeStack = Append(@, newScope),
                             !.stats.peakScopeDepth =
                                 IF @ > Len(r.scopeStack) + 1 THEN @
                                 ELSE Len(r.scopeStack) + 1]
         IN  emitEvent(r1, "enter-scope",
                [scopeId |-> newScope.id, parentScopeId |-> parent.id,
                 reason |-> reason])

\* popScope that also empties the bindings of the scope it returns to
popScope_ResetsParent(r) ==
    IF r.threw THEN r
    ELSE LET scope == currentScope(r)
             n == Len(r.scopeStack)
             r1 == [r EXCEPT !.scopeStack =
                      [SubSeq(@, 1, n - 1) EXCEPT ![n - 1].bindings = EmptyBindings]]
         IN  emitEvent(r1, "exit-scope", [scopeId |-> scope.id, reason |-> "block-exit"])

popScope(r) ==
    IF r.threw THEN r
    ELSE LET scope == currentScope(r)
             r1 == [r EXCEPT !.scopeStack = SubSeq(@, 1, Len(@) - 1)]
         IN  emitEvent(r1, "exit-scope", [scopeId |-> scope.id, reason |-> "block-exit"])

\* findBinding walking the scope stack from the global scope upwards
findBinding_OutermostFirst(r, name) ==
    LET holders == {i \in 1..Len(r.scopeStack) : name \in DOMAIN r.scopeStack[i].bindings}
    IN  IF holders = {} THEN 0
        ELSE CHOOSE i \in holders : \A j \in holders : i <= j

\* findBinding looking in the current scope only
findBinding_CurrentScopeOnly(r, name) ==
    IF name \in DOMAIN currentScope(r).bindings THEN Len(r.scopeStack) ELSE 0

\* index in scopeStack of the innermost scope that binds name, 0 for null
findBinding(r, name) ==
    LET holders == {i \in 1..Len(r.scopeStack) : name \in DOMAIN r.scopeStack[i].bindings}
    IN  IF holders = {} THEN 0
        ELSE CHOOSE i \in holders : \A j \in holders : j <= i

declareBinding(r, name, kind, nodeId) ==
    IF r.threw THEN r
    ELSE LET top == Len(r.scopeStack)
         IN  IF name \in DOMAIN r.scopeStack[top].bindings
             THEN error(r, "declare-conflict", "Binding already declared in this scope")
             ELSE [r EXCEPT !.scopeStack[top].bindings =
                     (name :> [name |-> name, kind |-> kind, value |-> Undefined,
                               declaredAtNodeId |-> nodeId, initialized |-> FALSE]) @@ @]

\* (mutant) an assignment that stores the value before it tests for const
assignBinding_WritesFirst(r, name, newValue, nodeId) ==
    IF r.threw THEN r
    ELSE LET found == findBinding(r, name)
         IN  IF found = 0 THEN error(r, "undeclared-var", "Undeclared variable")
             ELSE LET binding == r.scopeStack[found].bindings[name]
                      r1 == [r EXCEPT !.scopeStack[found].bindings[name].value = newValue,
                                      !.scopeStack[found].bindings[name].initialized = TRUE]
                  IN  IF binding.kind = "const" /\ binding.initialized
                      THEN error(r1, "const-reassign", "Cannot reassign const binding")
                      ELSE emitEvent(r1, "assign",
                             [name |-> name, oldValue |-> binding.value,
                              newValue |-> newValue, kind |-> binding.kind,
                              bindingNodeId |-> binding.declaredAtNodeId,
                              scopeId |-> r.scopeStack[found].id])

\* (mutant) an assignment that rejects every const binding, initialized or not
assignBinding_RejectsEveryConst(r, name, newValue, nodeId) ==
    IF r.threw THEN r
    ELSE LET found == findBinding(r, name)
         IN  IF found = 0 THEN error(r, "undeclared-var", "Undeclared variable")
             ELSE LET binding == r.scopeStack[found].bindings[name]
                  IN  IF binding.kind = "const"
                      THEN error(r, "const-reassign", "Cannot reassign const binding")
                      ELSE emitEvent(
                             [r EXCEPT !.scopeStack[found].bindings[name].value = newValue,
                                       !.scopeStack[found].bindings[name].initialized = TRUE],
                             "assign",
                             [name |-> name, oldValue |-> binding.value,
                              newValue |-> newValue, kind |-> binding.kind,
                              bindingNodeId |-> binding.declaredAtNodeId,
                              scopeId |-> r.scopeStack[found].id])

\* assignBinding whose 'assign' Event reports the value the binding held
\* before the write as its newValue
assignBinding_ReportsOldValue(r, name, newValue, nodeId) ==
    IF r.threw THEN r
    ELSE LET found == findBinding(r, name)
         IN  IF found = 0 THEN error(r, "undeclared-var", "Undeclared variable")
             ELSE LET binding == r.scopeStack[found].bindings[name]
                  IN  IF binding.kind = "const" /\ binding.initialized
                      THEN error(r, "const-reassign", "Cannot reassign const binding")
                      ELSE emitEvent(
                             [r EXCEPT !.scopeStack[found].bindings[name].value = newValue,
                                       !.scopeStack[found].bindings[name].initialized = TRUE],
                             "assign",
                             [name |-> name, oldValue |-> binding.value,
                              newValue |-> binding.value, kind |-> binding.kind,
                              bindingNodeId |-> binding.declaredAtNodeId,
                              scopeId |-> r.scopeStack[found].id])

assignBinding(r, name, newValue, nodeId) ==
    IF r.threw THEN r
    ELSE LET found == findBinding(r, name)
         IN  IF found = 0 THEN error(r, "undeclared-var", "Undeclared variable")
             ELSE LET binding == r.scopeStack[found].bindings[name]
                  IN  IF binding.kind = "const" /\ binding.initialized
                      THEN error(r, "const-reassign", "Cannot reassign const binding")
                      ELSE emitEvent(
                             [r EXCEPT !.scopeStack[found].bindings[name].value = newValue,
                                       !.scopeStack[found].bindings[name].initialized = TRUE],
                             "assign",
                             [name |-> name, oldValue |-> binding.value,
                              newValue |-> newValue, kind |-> binding.kind,
                              bindingNodeId |-> binding.declaredAtNodeId,
                              scopeId |-> r.scopeStack[found].id])

pushFrame(r, nodeId, nodeType, stage) ==
    IF r.threw THEN r
    ELSE [r EXCEPT !.ipStack =
            Append(@, [nodeId |-> nodeId, nodeType |-> nodeType, stage |-> stage,
                       childIndex |-> 0, scopeId |-> currentScope(r).id])]

popFrame(r) ==
    IF r.threw THEN r ELSE [r EXCEPT !.ipStack = SubSeq(@, 1, Len(@) - 1)]

getInitialStage(nodeType) ==
    CASE nodeType = "Program" -> "evaluate-body"
      [] nodeType = "BlockStatement" -> "enter"
      [] nodeType = "VariableDeclaration" -> "declare"
      [] nodeType = "ExpressionStatement" -> "evaluate-expr"
      [] nodeType = "AssignmentStatement" -> "evaluate-expr"
      [] nodeType = "Literal" -> "eval"
      [] nodeType = "Identifier" -> "lookup"
      [] nodeType = "BinaryExpression" -> "evaluate-left"
      [] nodeType = "UnaryExpression" -> "evaluate-arg"
      [] nodeType = "IfStatement" -> "evaluate-test"
      [] nodeType = "WhileStatement" -> "evaluate-test"
      [] nodeType = "ForStatement" -> "evaluate-init"
      [] OTHER -> "unknown"

\* this.pushFrame(child.id, child.type, this.getInitialStage(child.type)) for
\* the child node with id childId; reading .id of a null child raises TypeError
PushNode(r, childId) ==
    IF r.threw THEN r
    ELSE IF childId = 0 THEN [r EXCEPT !.threw = TRUE]
    ELSE pushFrame(r, childId, astNodeMap[childId].type,
                   getInitialStage(astNodeMap[childId].type))

\* frame.stage = stage, for the frame a handler was called with (at index fi)
SetStage(r, fi, stage) ==
    IF r.threw THEN r ELSE [r EXCEPT !.ipStack[fi].stage = stage]
\* frame.childIndex++
IncChildIndex(r, fi) ==
    IF r.threw THEN r ELSE [r EXCEPT !.ipStack[fi].childIndex = @ + 1]
\* this.evalStack.push(v)
PushValue(r, v) ==
    IF r.threw THEN r ELSE [r EXCEPT !.evalStack = Append(@, v)]
\* this.evalStack.pop(), n times
PopValues(r, n) ==
    IF r.threw THEN r ELSE [r EXCEPT !.evalStack = SubSeq(@, 1, Len(@) - n)]
\* return b from a handler
Return(r, b) ==
    IF r.threw THEN r ELSE [r EXCEPT !.eventEmitted = b]

StmtFields(r, fi) ==
    [nodeId |-> r.ipStack[fi].nodeId, nodeType |-> r.ipStack[fi].nodeType,
     scopeId |-> currentScope(r).id]

-----------------------------------------------------------------------------
(* Node handlers.  fi is the index in ipStack of the frame handed to the    *)
(* handler (the top frame when step() dispatched).                          *)

executeProgram(r, fi) ==
    LET frame == r.ipStack[fi]
        node == astNodeMap[frame.nodeId]
    IN  IF frame.stage = "evaluate-body" THEN
            IF Len(node.body) = 0
            THEN Return(emitEvent(SetStage(r, fi, "done"), "enter-statement",
                                  StmtFields(r, fi)), TRUE)
            ELSE LET r1 == IF frame.childIndex = 0
                           THEN emitEvent(r, "enter-statement", StmtFields(r, fi))
                           ELSE r
                 IN  IF frame.childIndex < Len(node.body)
                     THEN Return(IncChildIndex(
                                    PushNode(r1, node.body[frame.childIndex + 1]), fi),
                                 TRUE)
                     ELSE Return(SetStage(r1, fi, "done"), TRUE)
        ELSE IF frame.stage = "done" THEN
            Return(popFrame(emitEvent(r, "exit-statement", StmtFields(r, fi))), TRUE)
        ELSE Return(r, FALSE)

\* executeBlockStatement whose exit stage pops the scope before it emits the
\* block's exit-statement
executeBlockStatement_PopsScopeFirst(r, fi) ==
    LET frame == r.ipStack[fi]
        node == astNodeMap[frame.nodeId]
    IN  IF frame.stage = "enter" THEN
            Return(SetStage(pushScope(emitEvent(r, "enter-statement", StmtFields(r, fi)),
                                      "block"),
                            fi, "evaluate-body"), TRUE)
        ELSE IF frame.stage = "evaluate-body" THEN
            IF Len(node.body) = 0 THEN Return(SetStage(r, fi, "exit"), TRUE)
            ELSE IF frame.childIndex < Len(node.body)
            THEN Return(IncChildIndex(PushNode(r, node.body[frame.childIndex + 1]), fi),
                        TRUE)
            ELSE Return(SetStage(r, fi, "exit"), TRUE)
        ELSE IF frame.stage = "exit" THEN
            Return(popFrame(emitEvent(popScope(r), "exit-statement", StmtFields(r, fi))),
                   TRUE)
        ELSE Return(r, FALSE)

executeBlockStatement(r, fi) ==
    LET frame == r.ipStack[fi]
        node == astNodeMap[frame.nodeId]
    IN  IF frame.stage = "enter" THEN
            Return(SetStage(pushScope(emitEvent(r, "enter-statement", StmtFields(r, fi)),
                                      "block"),
                            fi, "evaluate-body"), TRUE)
        ELSE IF frame.stage = "evaluate-body" THEN
            IF Len(node.body) = 0 THEN Return(SetStage(r, fi, "exit"), TRUE)
            ELSE IF frame.childIndex < Len(node.body)
            THEN Return(IncChildIndex(PushNode(r, node.body[frame.childIndex + 1]), fi),
                        TRUE)
            ELSE Return(SetStage(r, fi, "exit"), TRUE)
        ELSE IF frame.stage = "exit" THEN
            Return(popFrame(popScope(emitEvent(r, "exit-statement", StmtFields(r, fi)))),
                   TRUE)
        ELSE Return(r, FALSE)

executeVariableDeclaration(r, fi) ==
    LET frame == r.ipStack[fi]
        node == astNodeMap[frame.nodeId]
    IN  IF frame.stage = "declare" THEN
            LET r1 == emitEvent(r, "enter-statement", StmtFields(r, fi))
                r2 == declareBinding(r1, node.declName, node.kind, frame.nodeId)
            IN  Return(SetStage(r2, fi, IF node.init # 0 THEN "evaluate-init" ELSE "done"),
                       TRUE)
        ELSE IF frame.stage = "evaluate-init" THEN
            Return(SetStage(PushNode(r, node.init), fi, "assign"), TRUE)
        ELSE IF frame.stage = "assign" THEN
            IF Len(r.evalStack) > 0
            THEN LET val == r.evalStack[Len(r.evalStack)]
                 IN  Return(SetStage(assignBinding(PopValues(r, 1), node.declName, val,
                                                   frame.nodeId),
                                     fi, "done"), TRUE)
            ELSE Return(r, FALSE)
        ELSE IF frame.stage = "done" THEN
            Return(popFrame(emitEvent(r, "exit-statement", StmtFields(r, fi))), TRUE)
        ELSE Return(r, FALSE)

\* (mutant) an ExpressionStatement that leaves its value on the value stack
executeExpressionStatement_KeepsValue(r, fi) ==
    LET frame == r.ipStack[fi]
        node == astNodeMap[frame.nodeId]
    IN  IF frame.stage = "evaluate-expr" THEN
            Return(SetStage(PushNode(emitEvent(r, "enter-statement", StmtFields(r, fi)),
                                     node.expression),
                            fi, "done"), TRUE)
        ELSE IF frame.stage = "done" THEN
            Return(popFrame(emitEvent(r, "exit-statement", StmtFields(r, fi))), TRUE)
        ELSE Return(r, FALSE)

executeExpressionStatement(r, fi) ==
    LET frame == r.ipStack[fi]
        node == astNodeMap[frame.nodeId]
    IN  IF frame.stage = "evaluate-expr" THEN
            Return(SetStage(PushNode(emitEvent(r, "enter-statement", StmtFields(r, fi)),
                                     node.expression),
                            fi, "done"), TRUE)
        ELSE IF frame.stage = "done" THEN
            LET r1 == IF Len(r.evalStack) > 0 THEN PopValues(r, 1) ELSE r
            IN  Return(popFrame(emitEvent(r1, "exit-statement", StmtFields(r, fi))), TRUE)
        ELSE Return(r, FALSE)

executeAssignmentStatement(r, fi) ==
    LET frame == r.ipStack[fi]
        node == astNodeMap[frame.nodeId]
        \* node.expression is the AssignmentExpression
        expression == astNodeMap[node.expression]
    IN  IF frame.stage = "evaluate-expr" THEN
            Return(SetStage(PushNode(emitEvent(r, "enter-statement", StmtFields(r, fi)),
                                     expression.right),
                            fi, "assign"), TRUE)
        ELSE IF frame.stage = "assign" THEN
            IF Len(r.evalStack) > 0
            THEN LET val == r.evalStack[Len(r.evalStack)]
                 IN  Return(SetStage(assignBinding(PopValues(r, 1), expression.name, val,
                                                   frame.nodeId),
                                     fi, "done"), TRUE)
            ELSE Return(r, FALSE)
        ELSE IF frame.stage = "done" THEN
            Return(popFrame(emitEvent(r, "exit-statement", StmtFields(r, fi))), TRUE)
        ELSE Return(r, FALSE)

\* (mutant) a Literal that emits its Event without pushing its value
executeLiteral_EmitsOnly(r, fi) ==
    LET frame == r.ipStack[fi]
        node == astNodeMap[frame.nodeId]
    IN  IF frame.stage = "eval" THEN
            Return(SetStage(emitEvent(r, "eval-literal",
                                      [value |-> node.value] @@ StmtFields(r, fi)),
                            fi, "done"), TRUE)
        ELSE IF frame.stage = "done" THEN Return(popFrame(r), TRUE)
        ELSE Return(r, FALSE)

executeLiteral(r, fi) ==
    LET frame == r.ipStack[fi]
        node == astNodeMap[frame.nodeId]
    IN  IF frame.stage = "eval" THEN
            Return(SetStage(emitEvent(PushValue(r, node.value), "eval-literal",
                                      [value |-> node.value] @@ StmtFields(r, fi)),
                            fi, "done"), TRUE)
        ELSE IF frame.stage = "done" THEN Return(popFrame(r), TRUE)
        ELSE Return(r, FALSE)

executeIdentifier(r, fi) ==
    LET frame == r.ipStack[fi]
        node == astNodeMap[frame.nodeId]
    IN  IF frame.stage = "lookup" THEN
            LET found == findBinding(r, node.name)
            IN  IF found = 0
                THEN Return(error(r, "undeclared-var", "Undeclared variable"), TRUE)
                ELSE LET value == r.scopeStack[found].bindings[node.name].value
                     IN  Return(SetStage(
                                  emitEvent(PushValue(r, value), "eval-identifier",
                                     [name |-> node.name, value |-> value,
                                      foundInScopeId |-> r.scopeStack[found].id]
                                        @@ StmtFields(r, fi)),
                                  fi, "done"), TRUE)
        ELSE IF frame.stage = "done" THEN Return(popFrame(r), TRUE)
        ELSE Return(r, FALSE)

\* executeBinaryExpression that skips the right operand of '&&' and '||' when
\* the left value decides the result
executeBinaryExpression_ShortCircuits(r, fi) ==
    LET frame == r.ipStack[fi]
        node == astNodeMap[frame.nodeId]
    IN  IF frame.stage = "evaluate-left" THEN
            Return(SetStage(PushNode(r, node.left), fi, "evaluate-right"), TRUE)
        ELSE IF frame.stage = "evaluate-right" THEN
            LET left == r.evalStack[Len(r.evalStack)]
            IN  IF \/ node.operator = "&&" /\ ~Truthy(left)
                   \/ node.operator = "||" /\ Truthy(left)
                THEN Return(SetStage(
                              emitEvent(r, "eval-binary",
                                 [operator |-> node.operator, left |-> left,
                                  right |-> Undefined, value |-> left]
                                    @@ StmtFields(r, fi)),
                              fi, "done"), TRUE)
                ELSE Return(SetStage(PushNode(r, node.right), fi, "compute-op"), TRUE)
        ELSE IF frame.stage = "compute-op" THEN
            IF Len(r.evalStack) < 2
            THEN Return(error(r, "eval-stack", "Evaluation stack error"), TRUE)
            ELSE LET right == r.evalStack[Len(r.evalStack)]
                     left == r.evalStack[Len(r.evalStack) - 1]
                     r1 == PopValues(r, 2)
                 IN  IF node.operator = "/" /\ right.k = "number" /\ IsZero(right)
                     THEN Return(error(r1, "div-by-zero", "Division by zero"), TRUE)
                     ELSE IF node.operator = "%" /\ right.k = "number" /\ IsZero(right)
                     THEN Return(error(r1, "div-by-zero", "Modulo by zero"), TRUE)
                     ELSE IF node.operator \notin Operators
                     THEN Return(error(r1, "unsupported-op", "Unsupported operator"), TRUE)
                     ELSE LET result == ApplyOperator(node.operator, left, right)
                          IN  Return(SetStage(
                                       emitEvent(PushValue(r1, result), "eval-binary",
                                          [operator |-> node.operator, left |-> left,
                                           right |-> right, value |-> result]
                                             @@ StmtFields(r, fi)),
                                       fi, "done"), TRUE)
        ELSE IF frame.stage = "done" THEN Return(popFrame(r), TRUE)
        ELSE Return(r, FALSE)

executeBinaryExpression(r, fi) ==
    LET frame == r.ipStack[fi]
        node == astNodeMap[frame.nodeId]
    IN  IF frame.stage = "evaluate-left" THEN
            Return(SetStage(PushNode(r, node.left), fi, "evaluate-right"), TRUE)
        ELSE IF frame.stage = "evaluate-right" THEN
            Return(SetStage(PushNode(r, node.right), fi, "compute-op"), TRUE)
        ELSE IF frame.stage = "compute-op" THEN
            IF Len(r.evalStack) < 2
            THEN Return(error(r, "eval-stack", "Evaluation stack error"), TRUE)
            ELSE LET right == r.evalStack[Len(r.evalStack)]
                     left == r.evalStack[Len(r.evalStack) - 1]
                     r1 == PopValues(r, 2)
                 IN  IF node.operator = "/" /\ right.k = "number" /\ IsZero(right)
                     THEN Return(error(r1, "div-by-zero", "Division by zero"), TRUE)
                     ELSE IF node.operator = "%" /\ right.k = "number" /\ IsZero(right)
                     THEN Return(error(r1, "div-by-zero", "Modulo by zero"), TRUE)
                     ELSE IF node.operator \notin Operators
                     THEN Return(error(r1, "unsupported-op", "Unsupported operator"), TRUE)
                     ELSE LET result == ApplyOperator(node.operator, left, right)
                          IN  Return(SetStage(
                                       emitEvent(PushValue(r1, result), "eval-binary",
                                          [operator |-> node.operator, left |-> left,
                                           right |-> right, value |-> result]
                                             @@ StmtFields(r, fi)),
                                       fi, "done"), TRUE)
        ELSE IF frame.stage = "done" THEN Return(popFrame(r), TRUE)
        ELSE Return(r, FALSE)

\* executeIfStatement that runs the consequent whatever the test value is
executeIfStatement_AlwaysThen(r, fi) ==
    LET frame == r.ipStack[fi]
        node == astNodeMap[frame.nodeId]
    IN  IF frame.stage = "evaluate-test" THEN
            Return(SetStage(PushNode(emitEvent(r, "enter-statement", StmtFields(r, fi)),
                                     node.test),
                            fi, "branch-decision"), TRUE)
        ELSE IF frame.stage = "branch-decision" THEN
            IF Len(r.evalStack) = 0
            THEN Return(error(r, "eval-stack", "Expected test value on evalStack"), TRUE)
            ELSE LET testValue == r.evalStack[Len(r.evalStack)]
                     isTruthy == Truthy(testValue)
                     r1 == emitEvent(PopValues(r, 1), "branch",
                              [testValue |-> Bool(isTruthy),
                               direction |-> IF isTruthy THEN "then"
                                             ELSE IF node.alternate # 0 THEN "else"
                                             ELSE "skip"] @@ StmtFields(r, fi))
                     r2 == IF node.consequent # 0
                           THEN PushNode(r1, node.consequent)
                           ELSE r1
                 IN  Return(SetStage(r2, fi, "done"), TRUE)
        ELSE IF frame.stage = "done" THEN
            Return(popFrame(emitEvent(r, "exit-statement", StmtFields(r, fi))), TRUE)
        ELSE Return(r, FALSE)

executeIfStatement(r, fi) ==
    LET frame == r.ipStack[fi]
        node == astNodeMap[frame.nodeId]
    IN  IF frame.stage = "evaluate-test" THEN
            Return(SetStage(PushNode(emitEvent(r, "enter-statement", StmtFields(r, fi)),
                                     node.test),
                            fi, "branch-decision"), TRUE)
        ELSE IF frame.stage = "branch-decision" THEN
            IF Len(r.evalStack) = 0
            THEN Return(error(r, "eval-stack", "Expected test value on evalStack"), TRUE)
            ELSE LET testValue == r.evalStack[Len(r.evalStack)]
                     isTruthy == Truthy(testValue)
                     r1 == emitEvent(PopValues(r, 1), "branch",
                              [testValue |-> Bool(isTruthy),
                               direction |-> IF isTruthy THEN "then"
                                             ELSE IF node.alternate # 0 THEN "else"
                                             ELSE "skip"] @@ StmtFields(r, fi))
                     r2 == IF isTruthy /\ node.consequent # 0
                           THEN PushNode(r1, node.consequent)
                           ELSE IF ~isTruthy /\ node.alternate # 0
                           THEN PushNode(r1, node.alternate)
                           ELSE r1
                 IN  Return(SetStage(r2, fi, "done"), TRUE)
        ELSE IF frame.stage = "done" THEN
            Return(popFrame(emitEvent(r, "exit-statement", StmtFields(r, fi))), TRUE)
        ELSE Return(r, FALSE)

executeWhileStatement(r, fi) ==
    Return(popFrame(error(r, "unsupported-node", "WhileStatement not yet implemented")),
           TRUE)

executeForStatement(r, fi) ==
    Return(popFrame(error(r, "unsupported-node", "ForStatement not yet implemented")),
           TRUE)

\* the default branch of step()'s dispatch
executeUnsupported(r, fi) ==
    Return(error(r, "unsupported-node", "Unsupported node type"), TRUE)

-----------------------------------------------------------------------------
(* step() and start() *)

HandledTypes ==
    {"Program", "BlockStatement", "VariableDeclaration", "ExpressionStatement",
     "AssignmentStatement", "Literal", "Identifier", "BinaryExpression",
     "IfStatement", "WhileStatement", "ForStatement"}

dispatch(r, fi) ==
    LET nodeType == r.ipStack[fi].nodeType
    IN  CASE nodeType = "Program" -> executeProgram(r, fi)
          [] nodeType = "BlockStatement" -> executeBlockStatement(r, fi)
          [] nodeType = "VariableDeclaration" -> executeVariableDeclaration(r, fi)
          [] nodeType = "ExpressionStatement" -> executeExpressionStatement(r, fi)
          [] nodeType = "AssignmentStatement" -> executeAssignmentStatement(r, fi)
          [] nodeType = "Literal" -> executeLiteral(r, fi)
          [] nodeType = "Identifier" -> executeIdentifier(r, fi)
          [] nodeType = "BinaryExpression" -> executeBinaryExpression(r, fi)
          [] nodeType = "IfStatement" -> executeIfStatement(r, fi)
          [] nodeType = "WhileStatement" -> executeWhileStatement(r, fi)
          [] nodeType = "ForStatement" -> executeForStatement(r, fi)
          [] OTHER -> executeUnsupported(r, fi)

\* what the call hands back: the last Event of the trace, null, or an exception
ResultOf(r) ==
    IF r.threw THEN "throw" ELSE IF Len(r.trace) > 0 THEN "event" ELSE "null"

\* entry of a step() call
Begin(r) == [r EXCEPT !.threw = FALSE, !.eventEmitted = FALSE, !.calls = @ + 1]

\* step() when stepCounter >= maxSteps
stepAtLimit(r) ==
    LET r1 == error(r, "max-steps", "Execution step limit exceeded")
    IN  [r1 EXCEPT !.result = ResultOf(r1)]

\* step() below the limit when status is not 'running'
stepNotRunning(r) == [r EXCEPT !.result = "null"]

\* step() when there is no frame left
stepHalt(r) ==
    LET r1 == emitEvent([r EXCEPT !.status = "done"], "halt",
                        [scopeId |-> currentScope(r).id])
        r2 == IF r1.threw THEN r1 ELSE [r1 EXCEPT !.stepCounter = @ + 1]
    IN  [r2 EXCEPT !.result = ResultOf(r2)]

\* (mutant) the end of a step() that never counts the step
Finish_NeverCounts(r1) == [r1 EXCEPT !.result = ResultOf(r1)]

\* the end of step() after a handler has returned in state r1
Finish(r1) ==
    LET r2 == IF ~r1.threw /\ r1.eventEmitted
              THEN [r1 EXCEPT !.stepCounter = @ + 1] ELSE r1
    IN  [r2 EXCEPT !.result = ResultOf(r2)]

\* one call of step() on the ExecutionState r0
step(r0) ==
    LET r == Begin(r0)
    IN  IF r.stepCounter >= options.maxSteps THEN stepAtLimit(r)
        ELSE IF r.status # "running" THEN stepNotRunning(r)
        ELSE IF currentFrame(r) = 0 THEN stepHalt(r)
        ELSE Finish(dispatch(r, currentFrame(r)))

\* new ExecutionState(options)
Constructed ==
    LET r0 == [stepCounter |-> 0, ipStack |-> <<>>, evalStack |-> <<>>,
               scopeStack |-> <<>>, trace |-> <<>>, status |-> "ready",
               lastError |-> "", stats |-> [stepsExecuted |-> 0, peakScopeDepth |-> 0],
               threw |-> FALSE, eventEmitted |-> FALSE, result |-> "none", calls |-> 0]
    IN  [r0 EXCEPT !.scopeStack = << createScope(r0, -1) >>]

\* start(programAst, options) for the Program node with id root
start(root) ==
    pushFrame([Constructed EXCEPT !.status = "running"], root, "Program", "evaluate-body")

-----------------------------------------------------------------------------
(* The primary run as a state machine: one action per branch of step()      *)

Cur ==
    [stepCounter |-> stepCounter, ipStack |-> ipStack, evalStack |-> evalStack,
     scopeStack |-> scopeStack, trace |-> trace, status |-> status,
     lastError |-> lastError, stats |-> stats, threw |-> FALSE,
     eventEmitted |-> FALSE, result |-> lastResult, calls |-> calls]

\* entrySnaps has one entry per live nested scope: the scope stack and the
\* trace length of the state in which that scope was opened
NextSnaps(r) ==
    IF Len(r.scopeStack) > Len(scopeStack)
    THEN Append(entrySnaps, [scopes |-> scopeStack, traceLen |-> Len(trace)])
    ELSE IF Len(r.scopeStack) < Len(scopeStack)
    THEN SubSeq(entrySnaps, 1, Len(entrySnaps) - 1)
    ELSE entrySnaps

Commit(r) ==
    /\ stepCounter' = r.stepCounter
    /\ ipStack' = r.ipStack
    /\ evalStack' = r.evalStack
    /\ scopeStack' = r.scopeStack
    /\ trace' = r.trace
    /\ status' = r.status
    /\ lastError' = r.lastError
    /\ stats' = r.stats
    /\ calls' = r.calls
    /\ lastResult' = r.result
    /\ nonNullResults' = nonNullResults + (IF r.result = "event" THEN 1 ELSE 0)
    /\ entrySnaps' = NextSnaps(r)
    /\ UNCHANGED <<astNodeMap, rootId, options, runB, NODE_ID, parseLog, uiVars>>

\* the debugger page is not loaded
NoPage ==
    /\ heap = <<>>
    /\ executionState = 0
    /\ stateHistory = <<>>
    /\ uiLog = [handler |-> "", before |-> "", pre |-> <<>>, calls |-> 0]

InitRun ==
    /\ \E a \in Asts : astNodeMap = a /\ rootId = Len(a)
    /\ options \in OptionChoices
    /\ stepCounter = start(rootId).stepCounter
    /\ ipStack = start(rootId).ipStack
    /\ evalStack = start(rootId).evalStack
    /\ scopeStack = start(rootId).scopeStack
    /\ trace = start(rootId).trace
    /\ status = start(rootId).status
    /\ lastError = start(rootId).lastError
    /\ stats = start(rootId).stats
    /\ calls = 0
    /\ nonNullResults = 0
    /\ lastResult = "none"
    /\ entrySnaps = <<>>
    /\ NODE_ID = 1
    /\ parseLog = <<>>
    /\ NoPage

Init == InitRun /\ runB = Constructed

\* the limit test letting the call that finds stepCounter = maxSteps through
LimitReached_OneStepLate == stepCounter > options.maxSteps
LimitReached == stepCounter >= options.maxSteps
TopType == IF ipStack = <<>> THEN "" ELSE ipStack[Len(ipStack)].nodeType
Dispatching ==
    calls < MaxCalls /\ ~LimitReached /\ status = "running" /\ ipStack # <<>>

StepAtLimit == calls < MaxCalls /\ LimitReached /\ Commit(stepAtLimit(Begin(Cur)))
StepNotRunning ==
    /\ calls < MaxCalls /\ ~LimitReached /\ status # "running"
    /\ Commit(stepNotRunning(Begin(Cur)))
StepHalt ==
    /\ calls < MaxCalls /\ ~LimitReached /\ status = "running" /\ ipStack = <<>>
    /\ Commit(stepHalt(Begin(Cur)))
StepProgram ==
    /\ Dispatching /\ TopType = "Program"
    /\ Commit(Finish(executeProgram(Begin(Cur), Len(ipStack))))
StepBlockStatement ==
    /\ Dispatching /\ TopType = "BlockStatement"
    /\ Commit(Finish(executeBlockStatement(Begin(Cur), Len(ipStack))))
StepVariableDeclaration ==
    /\ Dispatching /\ TopType = "VariableDeclaration"
    /\ Commit(Finish(executeVariableDeclaration(Begin(Cur), Len(ipStack))))
StepExpressionStatement ==
    /\ Dispatching /\ TopType = "ExpressionStatement"
    /\ Commit(Finish(executeExpressionStatement(Begin(Cur), Len(ipStack))))
StepAssignmentStatement ==
    /\ Dispatching /\ TopType = "AssignmentStatement"
    /\ Commit(Finish(executeAssignmentStatement(Begin(Cur), Len(ipStack))))
StepLiteral ==
    /\ Dispatching /\ TopType = "Literal"
    /\ Commit(Finish(executeLiteral(Begin(Cur), Len(ipStack))))
StepIdentifier ==
    /\ Dispatching /\ TopType = "Identifier"
    /\ Commit(Finish(executeIdentifier(Begin(Cur), Len(ipStack))))
StepBinaryExpression ==
    /\ Dispatching /\ TopType = "BinaryExpression"
    /\ Commit(Finish(executeBinaryExpression(Begin(Cur), Len(ipStack))))
StepIfStatement ==
    /\ Dispatching /\ TopType = "IfStatement"
    /\ Commit(Finish(executeIfStatement(Begin(Cur), Len(ipStack))))
StepWhileStatement ==
    /\ Dispatching /\ TopType = "WhileStatement"
    /\ Commit(Finish(executeWhileStatement(Begin(Cur), Len(ipStack))))
StepForStatement ==
    /\ Dispatching /\ TopType = "ForStatement"
    /\ Commit(Finish(executeForStatement(Begin(Cur), Len(ipStack))))
StepUnsupportedNode ==
    /\ Dispatching /\ TopType \notin HandledTypes
    /\ Commit(Finish(executeUnsupported(Begin(Cur), Len(ipStack))))

Next ==
    \/ StepAtLimit
    \/ StepNotRunning
    \/ StepHalt
    \/ StepProgram
    \/ StepBlockStatement
    \/ StepVariableDeclaration
    \/ StepExpressionStatement
    \/ StepAssignmentStatement
    \/ StepLiteral
    \/ StepIdentifier
    \/ StepBinaryExpression
    \/ StepIfStatement
    \/ StepWhileStatement
    \/ StepForStatement
    \/ StepUnsupportedNode

Spec == Init /\ [][Next]_vars

\* the loop `while (state.status === 'running') state.step();` of runExecutor
\* and of handleRun: step() is called again as long as status is 'running'
StepAtLimitRunning == status = "running" /\ StepAtLimit

runExecutor ==
    \/ StepAtLimitRunning
    \/ StepHalt
    \/ StepProgram
    \/ StepBlockStatement
    \/ StepVariableDeclaration
    \/ StepExpressionStatement
    \/ StepAssignmentStatement
    \/ StepLiteral
    \/ StepIdentifier
    \/ StepBinaryExpression
    \/ StepIfStatement
    \/ StepWhileStatement
    \/ StepForStatement
    \/ StepUnsupportedNode

\* runs whose trace cannot fill up: maxTraceLength is the default
InitLoop == Init /\ options.maxTraceLength = DefaultMaxTraceLength

\* one more iteration of the loop: its condition holds and step() is called
LoopIteration == status = "running" /\ calls < MaxCalls /\ calls' = calls + 1

\* the loop does not stop while its condition holds
SpecRun == InitLoop /\ [][runExecutor]_vars /\ WF_calls(LoopIteration)

-----------------------------------------------------------------------------
(* Two independent runs of the same AST under the same options: the primary *)
(* run and runB, each advanced by its own step() calls in any interleaving  *)
(* in which runB has made no more calls than the primary run.  The options   *)
(* are the extreme ones of OptionChoices.                                   *)

DetOptionChoices ==
    [maxSteps : {1, StepLimitBound, DefaultMaxSteps},
     maxScopeDepth : {1, DefaultMaxScopeDepth},
     maxTraceLength : {TraceLimitBound, DefaultMaxTraceLength}]

InitDet == InitRun /\ options \in DetOptionChoices /\ runB = start(rootId)

StepRunB ==
    /\ runB.calls < calls
    /\ runB' = step(runB)
    /\ UNCHANGED <<astNodeMap, rootId, options, stepCounter, ipStack, evalStack,
                   scopeStack, trace, status, lastError, stats, calls,
                   nonNullResults, lastResult, entrySnaps, NODE_ID, parseLog, uiVars>>

NextDet == Next \/ StepRunB

SpecDet == InitDet /\ [][NextDet]_vars

-----------------------------------------------------------------------------
(* The parser (parser.js).  A source is a string and a token carries its    *)
(* type and value; positions (start, end, loc) are not modelled.  A parser  *)
(* state p holds the fields of the Parser object together with the          *)
(* module-level NODE_ID, the nodes made so far in makeNode order, `ret`     *)
(* (the id of the node the parse function returns, 0 for null), `list` (the *)
(* body a loop has collected) and `threw` (a host TypeError is propagating, *)
(* nothing in the parser catches it).  An absent option is 0.               *)

DefaultMaxFileSize == 20000
DefaultMaxDepth == 200

KEYWORDS == {"let", "const", "if", "else", "while", "for", "true", "false", "null"}

\* what peek() returns past the last token (undefined)
NoToken == [type |-> "", value |-> ""]

tokenize(src, opts) ==
    LET maxFileSize == IF opts.maxFileSize # 0 THEN opts.maxFileSize
                       ELSE DefaultMaxFileSize
        len == Len(src)
        \* src[i], positions counted from 1; "" for undefined
        at(i) == IF i >= 1 /\ i <= len THEN SubSeq(src, i, i) ELSE ""
        isWhitespace(ch) == ch \in {" ", "\t", "\n", "\r"}
        isDigit(ch) == ch \in {"0", "1", "2", "3", "4", "5", "6", "7", "8", "9"}
        isIdentStart(ch) ==
            ch \in {"A", "B", "C", "D", "E", "F", "G", "H", "I", "J", "K", "L", "M",
                    "N", "O", "P", "Q", "R", "S", "T", "U", "V", "W", "X", "Y", "Z",
                    "a", "b", "c", "d", "e", "f", "g", "h", "i", "j", "k", "l", "m",
                    "n", "o", "p", "q", "r", "s", "t", "u", "v", "w", "x", "y", "z",
                    "_"}
        isIdentPart(ch) == isIdentStart(ch) \/ isDigit(ch)
        twoOps == {"==", "!=", ">=", "<=", "&&", "||", "++", "--", "+=", "-=", "*=",
                   "/="}
        oneTokens == {"+", "-", "*", "/", "%", "(", ")", "{", "}", "[", "]", ";", ",",
                      "<", ">", "=", "!"}
        RECURSIVE lineEnd(_)
        lineEnd(i) == IF i <= len /\ at(i) # "\n" THEN lineEnd(i + 1) ELSE i
        RECURSIVE commentEnd(_)
        commentEnd(i) ==
            IF i <= len /\ ~(at(i) = "*" /\ at(i + 1) = "/") THEN commentEnd(i + 1)
            ELSE i
        RECURSIVE numberEnd(_)
        numberEnd(i) ==
            IF i <= len /\ (isDigit(at(i)) \/ at(i) = ".") THEN numberEnd(i + 1) ELSE i
        RECURSIVE identEnd(_)
        identEnd(i) == IF i <= len /\ isIdentPart(at(i)) THEN identEnd(i + 1) ELSE i
        RECURSIVE stringEnd(_, _)
        stringEnd(i, quote) ==
            IF i <= len /\ at(i) # quote
            THEN IF at(i) = "\\" /\ i < len THEN stringEnd(i + 2, quote)
                 ELSE stringEnd(i + 1, quote)
            ELSE i
        RECURSIVE scan(_, _, _)
        scan(i, tokens, errors) ==
            IF i > len THEN [tokens |-> tokens, errors |-> errors]
            ELSE
            LET ch == at(i)
                two == SubSeq(src, i, IF i < len THEN i + 1 ELSE len)
            IN  IF isWhitespace(ch) THEN scan(i + 1, tokens, errors)
                ELSE IF ch = "/" /\ at(i + 1) = "/" THEN
                    scan(lineEnd(i + 2), tokens, errors)
                ELSE IF ch = "/" /\ at(i + 1) = "*" THEN
                    scan(commentEnd(i + 2) + 2, tokens, errors)
                ELSE IF isDigit(ch) THEN
                    LET j == numberEnd(i + 1)
                    IN  scan(j, Append(tokens, [type |-> "Number",
                                                value |-> SubSeq(src, i, j - 1)]),
                             errors)
                ELSE IF isIdentStart(ch) THEN
                    LET j == identEnd(i + 1)
                        s == SubSeq(src, i, j - 1)
                    IN  scan(j, Append(tokens,
                                       [type |-> IF s \in KEYWORDS THEN "Keyword"
                                                 ELSE "Identifier",
                                        value |-> s]),
                             errors)
                ELSE IF ch = "\"" \/ ch = "'" THEN
                    LET j == stringEnd(i + 1, ch)
                        jj == IF j > len THEN len + 1 ELSE j
                    IN  scan(j + 1, Append(tokens, [type |-> "String",
                                                    value |-> SubSeq(src, i + 1, jj - 1)]),
                             errors)
                ELSE IF two \in twoOps THEN
                    scan(i + 2, Append(tokens, [type |-> "Punct", value |-> two]), errors)
                ELSE IF ch \in oneTokens THEN
                    scan(i + 1, Append(tokens, [type |-> "Punct", value |-> ch]), errors)
                ELSE scan(i + 1, tokens, Append(errors, "Unknown token: " \o ch))
    IN  IF len > maxFileSize
        THEN [tokens |-> <<>>, errors |-> <<"File too large">>]
        ELSE scan(1, <<>>, <<>>)

\* new Parser(tokens, src, opts), with the NODE_ID it finds
Parser(tokens, opts, nodeId) ==
    [tokens |-> tokens, i |-> 0, errors |-> <<>>, depth |-> 0,
     maxDepth |-> IF opts.maxDepth # 0 THEN opts.maxDepth ELSE DefaultMaxDepth,
     NODE_ID |-> nodeId, nodes |-> <<>>, ret |-> 0, list |-> <<>>, threw |-> FALSE]

peek(p) == IF p.i < Len(p.tokens) THEN p.tokens[p.i + 1] ELSE NoToken
next(p) == [p EXCEPT !.i = @ + 1]
eof(p) == p.i >= Len(p.tokens)
IsPunct(t, val) == t.type = "Punct" /\ t.value = val
Returning(p, id) == [p EXCEPT !.ret = id]
\* the node of p with the given id
NodeOf(p, id) == p.nodes[CHOOSE k \in 1..Len(p.nodes) : p.nodes[k].id = id]

expectPunct(p, val) ==
    IF IsPunct(peek(p), val) THEN next(p)
    ELSE [p EXCEPT !.errors = Append(@, "Expected \"" \o val \o "\"")]

\* makeNode with nextId: the node takes NODE_ID, which grows by one
makeNode(p, type, props) ==
    [p EXCEPT !.NODE_ID = @ + 1,
              !.nodes = Append(@, MkNode(type, p.NODE_ID, props)),
              !.ret = p.NODE_ID]

\* the sequel K of a call of a parse function, unless the call raised
Then(p, K(_)) == IF p.threw THEN p ELSE K(p)

RECURSIVE parseStatement(_)
RECURSIVE parseExpression(_, _)
RECURSIVE parseUnary(_)

parseProgram(p) ==
    LET RECURSIVE loop(_, _)
        loop(q, body) ==
            IF eof(q) THEN [q EXCEPT !.list = body]
            ELSE Then(parseStatement(q), LAMBDA q1 :
                     IF q1.ret = 0 THEN [q1 EXCEPT !.list = body]
                     ELSE loop(q1, Append(body, q1.ret)))
    IN  Then(loop(p, <<>>), LAMBDA p1 : makeNode(p1, "Program", [body |-> p1.list]))

parseVarDecl(p) ==
    LET kw == peek(p)
        idTok == peek(next(p))
        p2 == next(next(p))
    IN  IF idTok.type # "Identifier" THEN
            Returning([p2 EXCEPT !.errors =
                           Append(@, "Expected identifier after " \o kw.value)], 0)
        ELSE Then(IF IsPunct(peek(p2), "=") THEN parseExpression(next(p2), 0)
                  ELSE Returning(p2, 0),
                  LAMBDA p3 :
                      Then(makeNode(expectPunct(p3, ";"), "Identifier",
                                    [name |-> idTok.value]),
                           LAMBDA p4 :
                               makeNode(p4, "VariableDeclaration",
                                        [kind |-> kw.value, declId |-> p4.ret,
                                         declName |-> idTok.value, init |-> p3.ret])))

parseIf(p) ==
    Then(parseExpression(expectPunct(next(p), "("), 0), LAMBDA p1 :
    Then(parseStatement(expectPunct(p1, ")")), LAMBDA p2 :
    Then(IF peek(p2).type = "Keyword" /\ peek(p2).value = "else"
         THEN parseStatement(next(p2)) ELSE Returning(p2, 0),
         LAMBDA p3 :
             makeNode(p3, "IfStatement",
                      [test |-> p1.ret, consequent |-> p2.ret, alternate |-> p3.ret]))))

parseWhile(p) ==
    Then(parseExpression(expectPunct(next(p), "("), 0), LAMBDA p1 :
    Then(parseStatement(expectPunct(p1, ")")), LAMBDA p2 :
         makeNode(p2, "WhileStatement", [test |-> p1.ret, loopBody |-> p2.ret])))

parseFor(p) ==
    LET p0 == expectPunct(next(p), "(")
        t == peek(p0)
    IN  Then(IF t.type = "Keyword" /\ t.value \in {"let", "const"} THEN parseVarDecl(p0)
             ELSE IF ~IsPunct(t, ";") THEN
                 Then(parseExpression(p0, 0),
                      LAMBDA q : Returning(expectPunct(q, ";"), q.ret))
             ELSE Returning(expectPunct(p0, ";"), 0),
             LAMBDA p1 :
        Then(IF peek(p1) # NoToken /\ ~IsPunct(peek(p1), ";")
             THEN parseExpression(p1, 0) ELSE Returning(p1, 0),
             LAMBDA p2 :
        Then(Returning(expectPunct(p2, ";"), 0), LAMBDA p3 :
        Then(IF peek(p3) # NoToken /\ ~IsPunct(peek(p3), ")")
             THEN parseExpression(p3, 0) ELSE Returning(p3, 0),
             LAMBDA p4 :
        Then(parseStatement(expectPunct(p4, ")")), LAMBDA p5 :
             makeNode(p5, "ForStatement",
                      [init |-> p1.ret, test |-> p2.ret, update |-> p4.ret,
                       loopBody |-> p5.ret]))))))

parseBlock(p) ==
    LET RECURSIVE loop(_, _)
        loop(q, body) ==
            IF peek(q) # NoToken /\ ~IsPunct(peek(q), "}")
            THEN Then(parseStatement(q), LAMBDA q1 :
                     IF q1.ret = 0 THEN [q1 EXCEPT !.list = body]
                     ELSE loop(q1, Append(body, q1.ret)))
            ELSE [q EXCEPT !.list = body]
    IN  Then(loop(next(p), <<>>), LAMBDA p1 :
             makeNode(expectPunct(p1, "}"), "BlockStatement", [body |-> p1.list]))

parseStatement(p) ==
    LET p0 == [p EXCEPT !.depth = @ + 1]
        t == peek(p)
    IN  IF p.depth > p.maxDepth THEN
            Returning([p0 EXCEPT !.errors = Append(@, "Max parse depth exceeded")], 0)
        ELSE IF t = NoToken THEN Returning(p0, 0)
        ELSE IF t.type = "Keyword" /\ t.value \in {"let", "const"} THEN parseVarDecl(p0)
        ELSE IF t.type = "Keyword" /\ t.value = "if" THEN parseIf(p0)
        ELSE IF t.type = "Keyword" /\ t.value = "while" THEN parseWhile(p0)
        ELSE IF t.type = "Keyword" /\ t.value = "for" THEN parseFor(p0)
        ELSE IF IsPunct(t, "{") THEN parseBlock(p0)
        ELSE Then(parseExpression(p0, 0), LAMBDA p1 :
                 IF p1.ret = 0 THEN p1
                 ELSE makeNode(expectPunct(p1, ";"),
                               IF NodeOf(p1, p1.ret).type = "AssignmentExpression"
                               THEN "AssignmentStatement" ELSE "ExpressionStatement",
                               [expression |-> p1.ret]))

\* PRECEDENCE[op]; 0 for an operator the table does not hold
PRECEDENCE(op) ==
    CASE op = "||" -> 1
      [] op = "&&" -> 2
      [] op \in {"==", "!=", "===", "!=="} -> 3
      [] op \in {"<", ">", "<=", ">="} -> 4
      [] op \in {"+", "-"} -> 5
      [] op \in {"*", "/", "%"} -> 6
      [] OTHER -> 0

parseExpression(p, prec) ==
    LET RECURSIVE loop(_, _)
        loop(q, left) ==
            LET t == peek(q)
                pr == PRECEDENCE(t.value)
            IN  IF t.type # "Punct" \/ pr = 0 \/ pr <= prec THEN Returning(q, left)
                ELSE Then(parseExpression(next(q), pr), LAMBDA q1 :
                         \* right is null: right.end raises TypeError
                         IF q1.ret = 0 THEN [q1 EXCEPT !.threw = TRUE]
                         ELSE Then(makeNode(q1, "BinaryExpression",
                                            [operator |-> t.value, left |-> left,
                                             right |-> q1.ret]),
                                   LAMBDA q2 : loop(q2, q2.ret)))
    IN  Then(parseUnary(p), LAMBDA p1 : IF p1.ret = 0 THEN p1 ELSE loop(p1, p1.ret))

parsePrimary(p) ==
    LET t == peek(p)
        chars == [k \in 1..Len(t.value) |-> SubSeq(t.value, k, k)]
        dots == {k \in 1..Len(chars) : chars[k] = "."}
        \* Number(t.value) for a token of digits and dots
        number ==
            IF dots = {} THEN Num(DigitsToNat(chars))
            ELSE IF Cardinality(dots) = 1 THEN
                LET d == CHOOSE k \in dots : TRUE
                    RECURSIVE pow10(_)
                    pow10(k) == IF k = 0 THEN 1 ELSE 10 * pow10(k - 1)
                IN  Norm(DigitsToNat(SubSeq(chars, 1, d - 1) \o
                                     SubSeq(chars, d + 1, Len(chars))),
                         pow10(Len(chars) - d))
            ELSE NaN
    IN  IF t = NoToken THEN Returning(p, 0)
        ELSE IF t.type = "Number" THEN makeNode(next(p), "Literal", [value |-> number])
        ELSE IF t.type = "String" THEN
            makeNode(next(p), "Literal", [value |-> Str(chars)])
        ELSE IF t.type = "Keyword" /\ t.value \in {"true", "false", "null"} THEN
            makeNode(next(p), "Literal",
                     [value |-> IF t.value = "true" THEN Bool(TRUE)
                                ELSE IF t.value = "false" THEN Bool(FALSE) ELSE Null])
        ELSE IF t.type = "Identifier" THEN
            IF IsPunct(peek(next(p)), "=") THEN
                Then(parseExpression(next(next(p)), 0), LAMBDA p2 :
                    \* rhs is null: rhs.end raises TypeError
                    IF p2.ret = 0 THEN [p2 EXCEPT !.threw = TRUE]
                    ELSE Then(makeNode(p2, "Identifier", [name |-> t.value]),
                              LAMBDA p3 :
                                  makeNode(p3, "AssignmentExpression",
                                           [operator |-> "=", left |-> p3.ret,
                                            name |-> t.value, right |-> p2.ret])))
            ELSE makeNode(next(p), "Identifier", [name |-> t.value])
        ELSE IF IsPunct(t, "(") THEN
            Then(parseExpression(next(p), 0),
                 LAMBDA p1 : Returning(expectPunct(p1, ")"), p1.ret))
        ELSE Returning(next([p EXCEPT !.errors =
                                 Append(@, "Unexpected token in expression")]), 0)

parseUnary(p) ==
    LET t == peek(p)
    IN  IF t = NoToken THEN Returning(p, 0)
        ELSE IF t.type = "Punct" /\ t.value \in {"!", "-", "+"} THEN
            Then(parseUnary(next(p)), LAMBDA p1 :
                 makeNode(p1, "UnaryExpression",
                          [operator |-> t.value, argument |-> p1.ret]))
        ELSE parsePrimary(p)

\* what a parse() call gives its caller: the result it returns, or that it
\* raised, and the NODE_ID it leaves
Outcome(tokErrors, p) ==
    [threw |-> p.threw,
     ast |-> IF p.threw THEN <<>> ELSE p.nodes,
     root |-> IF p.threw THEN 0 ELSE p.ret,
     errors |-> IF p.threw THEN <<>> ELSE tokErrors \o p.errors,
     nodes |-> IF p.threw THEN 0 ELSE p.NODE_ID - 1,
     NODE_ID |-> p.NODE_ID]

\* the tokens handed to the Parser, then the whole parse
ParseTokens(tokRes, opts, nodeId) ==
    Outcome(tokRes.errors, parseProgram(Parser(tokRes.tokens, opts, nodeId)))

\* (mutant) parse without the reset of NODE_ID: ids go on from the last call
parse_KeepsCounter(source, opts, nodeId) ==
    ParseTokens(tokenize(source, opts), opts, nodeId)

\* parse(source, options) called while the module's NODE_ID is nodeId
parse(source, opts, nodeId) == ParseTokens(tokenize(source, opts), opts, 1)

-----------------------------------------------------------------------------
(* The parse() calls of one process: each call parses one of the inputs     *)
(* below, starting from the NODE_ID the call before it left.                *)

NoParseOptions == [maxDepth |-> 0, maxFileSize |-> 0]

ParseInputs ==
    { [source |-> "let x = 5;", opts |-> NoParseOptions],
      [source |-> "let y = 1 + 2;", opts |-> NoParseOptions],
      [source |-> "let x = 1; { let x = 2; }", opts |-> NoParseOptions],
      [source |-> "if (1) 1; else 2;", opts |-> NoParseOptions],
      [source |-> "for (;;) { }", opts |-> NoParseOptions],
      [source |-> "let a = b = 1;", opts |-> NoParseOptions],
      [source |-> "", opts |-> NoParseOptions],
      [source |-> "1 +", opts |-> NoParseOptions],
      [source |-> "x =", opts |-> NoParseOptions],
      [source |-> "(", opts |-> NoParseOptions],
      [source |-> "let x = ;", opts |-> NoParseOptions],
      [source |-> "a @ b;", opts |-> NoParseOptions],
      [source |-> "1; 2; 3; 4;", opts |-> [maxDepth |-> 2, maxFileSize |-> 0]] }

ParseCall ==
    /\ Len(parseLog) < MaxParseCalls
    /\ \E in \in ParseInputs :
          parseLog' = Append(parseLog, [source |-> in.source, opts |-> in.opts,
                                        result |-> parse(in.source, in.opts, NODE_ID)])
    /\ NODE_ID' = parseLog'[Len(parseLog')].result.NODE_ID
    /\ UNCHANGED <<astNodeMap, rootId, options, stepCounter, ipStack, evalStack,
                   scopeStack, trace, status, lastError, stats, calls,
                   nonNullResults, lastResult, entrySnaps, runB, uiVars>>

\* no ExecutionState is run: the run variables hold a started, idle run
InitParse ==
    /\ astNodeMap = AstEmpty /\ rootId = 1
    /\ options = [maxSteps |-> DefaultMaxSteps, maxScopeDepth |-> DefaultMaxScopeDepth,
                  maxTraceLength |-> DefaultMaxTraceLength]
    /\ stepCounter = start(rootId).stepCounter
    /\ ipStack = start(rootId).ipStack
    /\ evalStack = start(rootId).evalStack
    /\ scopeStack = start(rootId).scopeStack
    /\ trace = start(rootId).trace
    /\ status = start(rootId).status
    /\ lastError = start(rootId).lastError
    /\ stats = start(rootId).stats
    /\ calls = 0
    /\ nonNullResults = 0
    /\ lastResult = "none"
    /\ entrySnaps = <<>>
    /\ runB = Constructed
    /\ NODE_ID = 1
    /\ parseLog = <<>>
    /\ NoPage

SpecParse == InitParse /\ [][ParseCall]_vars

-----------------------------------------------------------------------------
(* One parse() call on an expression statement of identifiers joined by one *)
(* or two binary operators of the precedence table.                         *)

BinaryOperators ==
    {"||", "&&", "==", "!=", "===", "!==", "<", ">", "<=", ">=", "+", "-", "*", "/",
     "%"}

\* 'a op1 b;', or 'a op1 b op2 c;' when op2 is given
OperatorSource(op1, op2) ==
    IF op2 = "" THEN "a " \o op1 \o " b;"
    ELSE "a " \o op1 \o " b " \o op2 \o " c;"

ParseOperators ==
    /\ parseLog = <<>>
    /\ \E op1 \in BinaryOperators, op2 \in BinaryOperators \cup {""} :
          parseLog' = << [source |-> OperatorSource(op1, op2), opts |-> NoParseOptions,
                          result |-> parse(OperatorSource(op1, op2), NoParseOptions,
                                           NODE_ID)] >>
    /\ NODE_ID' = parseLog'[1].result.NODE_ID
    /\ UNCHANGED <<astNodeMap, rootId, options, stepCounter, ipStack, evalStack,
                   scopeStack, trace, status, lastError, stats, calls,
                   nonNullResults, lastResult, entrySnaps, runB, uiVars>>

SpecOperators == InitParse /\ [][ParseOperators]_vars

-----------------------------------------------------------------------------
(* The debugger page (ui/debugger.js).  Objects live in heap and are named  *)
(* by their index; an ExecutionState object holds its counters inline and   *)
(* references to its arrays, which step() changes in place.  The contents   *)
(* of an array cell (frames, scopes with their bindings, Events) are owned  *)
(* by that array alone and are kept in the cell as one value.               *)

MaxPageCalls == 7
UiMaxSteps == 1000
UiMaxScopeDepth == 50
MaxHistory == 100

\* the options handleParse passes to start
UiOptions ==
    [maxSteps |-> UiMaxSteps, maxScopeDepth |-> UiMaxScopeDepth,
     maxTraceLength |-> DefaultMaxTraceLength]

\* the texts of the code editor
EditorSources == {"let x = 5;", "let x = 1; { let x = 2; }", "let x = ;"}

\* the ExecutionState object ref of heap h as the record step() works on
Load(h, ref) ==
    [stepCounter |-> h[ref].stepCounter, ipStack |-> h[h[ref].ipStack],
     evalStack |-> h[h[ref].evalStack], scopeStack |-> h[h[ref].scopeStack],
     trace |-> h[h[ref].trace], status |-> h[ref].status,
     lastError |-> h[ref].lastError, stats |-> h[h[ref].stats], threw |-> FALSE,
     eventEmitted |-> FALSE, result |-> "none", calls |-> 0]

\* the writes of a method call on the object ref that ended in r: arrays and
\* stats are changed in place, the counters and lastError are assigned
Store(h, ref, r) ==
    [h EXCEPT ![h[ref].ipStack] = r.ipStack,
              ![h[ref].evalStack] = r.evalStack,
              ![h[ref].scopeStack] = r.scopeStack,
              ![h[ref].trace] = r.trace,
              ![h[ref].stats] = r.stats,
              ![ref] = [@ EXCEPT !.stepCounter = r.stepCounter, !.status = r.status,
                                 !.lastError = r.lastError]]

\* window.Executor.start(ast, options): the new objects, the ExecutionState
\* object last; globalScope is the object that is element 0 of scopeStack
Started(h, ast, root) ==
    LET base == Len(h)
        r == start(root)
    IN  h \o << ast, r.ipStack, r.evalStack, r.scopeStack, r.trace, r.stats,
                [astNodeMap |-> base + 1, options |-> UiOptions,
                 stepCounter |-> r.stepCounter, ipStack |-> base + 2,
                 evalStack |-> base + 3, scopeStack |-> base + 4, trace |-> base + 5,
                 status |-> r.status, lastError |-> r.lastError, stats |-> base + 6,
                 globalScope |-> [cell |-> base + 4, idx |-> 1]] >>

\* (mutant) a copy of the state object alone, which shares its arrays
deepCopyState_SharesArrays(h, ref) ==
    [heap |-> Append(h, h[ref]), ref |-> Len(h) + 1]

\* deepCopyState(state): a new object whose array, stats and globalScope
\* fields refer to new objects holding copies of the old contents
\* (deepCopyValue copies arrays, Maps and plain objects level by level down to
\* the primitive values), with the same astNodeMap and the same primitive
\* values
deepCopyState(h, ref) ==
    LET base == Len(h)
        state == h[ref]
    IN  [heap |-> h \o << h[state.ipStack], h[state.evalStack], h[state.scopeStack],
                          h[state.trace], h[state.stats],
                          << h[state.globalScope.cell][state.globalScope.idx] >>,
                          [state EXCEPT !.ipStack = base + 1, !.evalStack = base + 2,
                                        !.scopeStack = base + 3, !.trace = base + 4,
                                        !.stats = base + 5,
                                        !.globalScope = [cell |-> base + 6, idx |-> 1]] >>,
         ref |-> base + 7]

\* the history after saveStateSnapshot has pushed the snapshot ref
Pushed(history, ref) ==
    IF Len(history) + 1 > MaxHistory THEN Tail(Append(history, ref))
    ELSE Append(history, ref)

\* what the page shows of the object ref: its values, the contents of its
\* arrays, and which AST object it uses
View(h, ref) ==
    [status |-> h[ref].status, stepCounter |-> h[ref].stepCounter,
     lastError |-> h[ref].lastError, ipStack |-> h[h[ref].ipStack],
     evalStack |-> h[h[ref].evalStack], scopeStack |-> h[h[ref].scopeStack],
     trace |-> h[h[ref].trace], stats |-> h[h[ref].stats],
     astNodeMap |-> h[ref].astNodeMap]

Logged(handler, pre, n) ==
    [handler |-> handler, before |-> uiLog.handler, pre |-> pre,
     calls |-> uiLog.calls + n]

\* handleParse once window.Parser.parse has returned res; handleReset does
\* the same
ParsedPage(res) ==
    IF res.threw \/ res.errors # <<>>
    THEN UNCHANGED <<heap, executionState, stateHistory, astNodeMap, rootId>>
    ELSE /\ heap' = Started(heap, res.ast, res.root)
         /\ executionState' = Len(heap')
         /\ stateHistory' = <<>>
         /\ astNodeMap' = res.ast
         /\ rootId' = res.root

handleParse ==
    /\ uiLog.calls < MaxPageCalls
    /\ \E source \in EditorSources :
          /\ ParsedPage(parse(source, NoParseOptions, NODE_ID))
          /\ NODE_ID' = parse(source, NoParseOptions, NODE_ID).NODE_ID
    /\ uiLog' = Logged("handleParse", uiLog.pre, 1)
    /\ UNCHANGED <<options, stepCounter, ipStack, evalStack, scopeStack, trace, status,
                   lastError, stats, calls, nonNullResults, lastResult, entrySnaps,
                   runB, parseLog>>

\* handleStep once saveStateSnapshot has made the snapshot copy
SteppedPage(copy) ==
    /\ stateHistory' = Pushed(stateHistory, copy.ref)
    /\ heap' = Store(copy.heap, executionState, step(Load(copy.heap, executionState)))

handleStep ==
    /\ uiLog.calls < MaxPageCalls
    /\ executionState # 0
    /\ heap[executionState].status = "running"
    /\ SteppedPage(deepCopyState(heap, executionState))
    /\ uiLog' = Logged("handleStep", View(heap, executionState), 1)
    /\ UNCHANGED <<astNodeMap, rootId, options, stepCounter, ipStack, evalStack,
                   scopeStack, trace, status, lastError, stats, calls, nonNullResults,
                   lastResult, entrySnaps, runB, NODE_ID, parseLog, executionState>>

handleStepBack ==
    /\ stateHistory # <<>>
    /\ executionState' = stateHistory[Len(stateHistory)]
    /\ stateHistory' = SubSeq(stateHistory, 1, Len(stateHistory) - 1)
    /\ uiLog' = Logged("handleStepBack", uiLog.pre, 0)
    /\ UNCHANGED <<astNodeMap, rootId, options, stepCounter, ipStack, evalStack,
                   scopeStack, trace, status, lastError, stats, calls, nonNullResults,
                   lastResult, entrySnaps, runB, NODE_ID, parseLog, heap>>

\* the page as loaded: nothing parsed yet
InitPage ==
    /\ astNodeMap = AstEmpty /\ rootId = 1
    /\ options = UiOptions
    /\ stepCounter = start(rootId).stepCounter
    /\ ipStack = start(rootId).ipStack
    /\ evalStack = start(rootId).evalStack
    /\ scopeStack = start(rootId).scopeStack
    /\ trace = start(rootId).trace
    /\ status = start(rootId).status
    /\ lastError = start(rootId).lastError
    /\ stats = start(rootId).stats
    /\ calls = 0
    /\ nonNullResults = 0
    /\ lastResult = "none"
    /\ entrySnaps = <<>>
    /\ runB = Constructed
    /\ NODE_ID = 1
    /\ parseLog = <<>>
    /\ heap = <<>>
    /\ executionState = 0
    /\ stateHistory = <<>>
    /\ uiLog = [handler |-> "", before |-> "", pre |-> <<>>, calls |-> 0]

NextPage == handleParse \/ handleStep \/ handleStepBack

SpecPage == InitPage /\ [][NextPage]_vars

-----------------------------------------------------------------------------
(* Runs of start(parse(source).ast) for sources that parse with or without  *)
(* diagnostics, stepped the way the first debugger page does: its           *)
(* handleParse tests result.error, which parse never sets, so it starts the *)
(* run on whatever AST parse returned, and its handleStep calls step()      *)
(* whatever the status is.  maxSteps is 10000, so no call finds the step    *)
(* limit reached.                                                           *)

PartialSources ==
    {"if () 1;", "let x = ;", "while () 1;", "if (1) else 2;",
     "{ let x = 1; x = 2 + x; }", "1; while (1) 2;", "for (;;) { }", "-1;"}

\* the run started on the AST of the outcome res of parse(source)
StartedOn(source, res) ==
    /\ ~res.threw
    /\ astNodeMap = res.ast /\ rootId = res.root
    /\ NODE_ID = res.NODE_ID
    /\ parseLog = << [source |-> source, opts |-> NoParseOptions, result |-> res] >>

InitPartial ==
    /\ \E source \in PartialSources :
          StartedOn(source, parse(source, NoParseOptions, 1))
    /\ options = [maxSteps |-> DefaultMaxSteps, maxScopeDepth |-> DefaultMaxScopeDepth,
                  maxTraceLength |-> DefaultMaxTraceLength]
    /\ stepCounter = start(rootId).stepCounter
    /\ ipStack = start(rootId).ipStack
    /\ evalStack = start(rootId).evalStack
    /\ scopeStack = start(rootId).scopeStack
    /\ trace = start(rootId).trace
    /\ status = start(rootId).status
    /\ lastError = start(rootId).lastError
    /\ stats = start(rootId).stats
    /\ calls = 0
    /\ nonNullResults = 0
    /\ lastResult = "none"
    /\ entrySnaps = <<>>
    /\ runB = Constructed
    /\ NoPage

\* debugger.handleStep: one step() call, below the step limit
StepBelowLimit ==
    \/ StepNotRunning
    \/ StepHalt
    \/ StepProgram
    \/ StepBlockStatement
    \/ StepVariableDeclaration
    \/ StepExpressionStatement
    \/ StepAssignmentStatement
    \/ StepLiteral
    \/ StepIdentifier
    \/ StepBinaryExpression
    \/ StepIfStatement
    \/ StepWhileStatement
    \/ StepForStatement
    \/ StepUnsupportedNode

SpecPartial == InitPartial /\ [][StepBelowLimit]_vars

-----------------------------------------------------------------------------
(* Properties.  Every step of Spec is one step() call on the primary run.   *)

ErrorEvents(t) == Cardinality({i \in 1..Len(t) : t[i].type = "error"})
LastEvent == trace[Len(trace)]

\* C1: in a state whose status is not 'running', a step() call returns null and
\* changes none of status, trace, stepCounter, lastError, frame stack, value
\* stack and scope stack.
C1_NoOpWhenNotRunning ==
    [][status # "running" =>
          /\ lastResult' = "null"
          /\ UNCHANGED <<status, trace, stepCounter, lastError, ipStack, evalStack,
                         scopeStack>>]_vars

\* C2: 'done' and 'error' are terminal: once the status is 'done' or 'error' no
\* step() call changes it.
C2_TerminalStatus ==
    [][(status \in {"done", "error"}) => (status' = status)]_vars

\* C3: a fault leaves exactly one 'error' Event in the trace, and no Event is
\* appended by any step() call made after the fault.
C3_ExactlyOneErrorEvent ==
    [][/\ status' = "error" => (ErrorEvents(trace') = 1)
       /\ status = "error" => (trace' = trace)]_vars

\* C4: one step() call appends at most one Event to the trace.
C4_AtMostOneEventPerStep == [][Len(trace') <= (Len(trace) + 1)]_vars

\* C5: stepCounter equals the number of Events emitted into the trace.
C5_StepCounterCountsEvents == stepCounter = Len(trace)

\* C6: the number of step() calls that returned a non-null result equals
\* trace.length.
C6_NonNullResultsEqualTraceLength == nonNullResults = Len(trace)

ScopeExit == Len(scopeStack') < Len(scopeStack)
EntrySnap == entrySnaps[Len(entrySnaps)]
\* the bindings visible at the entry of that scope: name n resolves to scope i
VisibleAtEntry(i, n) ==
    /\ i \in 1..Len(EntrySnap.scopes)
    /\ i = findBinding([scopeStack |-> EntrySnap.scopes], n)
EntryNames == UNION {DOMAIN EntrySnap.scopes[i].bindings : i \in 1..Len(EntrySnap.scopes)}
\* an AssignmentStatement with target n was entered inside the scope
AssignedInside(n) ==
    \E k \in (EntrySnap.traceLen + 1)..Len(trace) :
        /\ trace[k].type = "enter-statement"
        /\ trace[k].nodeType = "AssignmentStatement"
        /\ astNodeMap[astNodeMap[trace[k].nodeId].expression].name = n

\* C8 as stated: after a nested scope exits, every binding visible before the
\* scope was entered has the value it had just before entry.
C8_ScopeIsolationAlways ==
    [][ScopeExit =>
          \A n \in EntryNames : \A i \in 1..Len(EntrySnap.scopes) :
              VisibleAtEntry(i, n) =>
                  scopeStack'[i].bindings[n].value = EntrySnap.scopes[i].bindings[n].value]_vars

\* C8 (amended): after a nested scope exits, every binding visible before the
\* scope was entered is as it was just before entry, unless an
\* AssignmentStatement to its name was executed inside the scope.
C8_ScopeIsolation ==
    [][ScopeExit =>
          \A n \in EntryNames : \A i \in 1..Len(EntrySnap.scopes) :
              (VisibleAtEntry(i, n) /\ ~AssignedInside(n)) =>
                  scopeStack'[i].bindings[n] = EntrySnap.scopes[i].bindings[n]]_vars

\* a block that declared and initialised its own x has just exited and the
\* outer x, initialised before the block, is visible again
C8_Witness ==
    /\ Len(trace) > 0 /\ LastEvent.type = "exit-scope"
    /\ Len(scopeStack) = 1
    /\ "x" \in DOMAIN scopeStack[1].bindings
    /\ scopeStack[1].bindings["x"].initialized
    /\ \E e \in 1..Len(trace) :
          /\ trace[e].type = "enter-scope"
          /\ \E k \in 1..(e - 1) :
                /\ trace[k].type = "assign" /\ trace[k].name = "x"
                /\ trace[k].scopeId = 0
                /\ trace[k].newValue = scopeStack[1].bindings["x"].value
          /\ \E k \in (e + 1)..Len(trace) :
                /\ trace[k].type = "assign" /\ trace[k].name = "x"
                /\ trace[k].scopeId = 1
                /\ trace[k].newValue # scopeStack[1].bindings["x"].value

\* C9: the step that exits a scope removes exactly the innermost scope and
\* leaves every enclosing scope unchanged (ids, binding names, and each
\* binding's value, kind and initialized flag).
C9_ExitRemovesInnermostOnly ==
    [][ScopeExit => (scopeStack' = SubSeq(scopeStack, 1, Len(scopeStack) - 1))]_vars

\* a scope has just been exited below an enclosing scope that holds a binding
C9_Witness ==
    /\ Len(trace) > 0 /\ LastEvent.type = "exit-scope"
    /\ \E i \in 1..Len(scopeStack) : DOMAIN scopeStack[i].bindings # {}

\* the top frame is about to write the value on top of the value stack to a
\* const binding that is already initialised
ConstWritePending ==
    /\ ~LimitReached /\ status = "running" /\ ipStack # <<>>
    /\ LET frame == ipStack[Len(ipStack)]
           node == astNodeMap[frame.nodeId]
           name == IF frame.nodeType = "AssignmentStatement"
                   THEN astNodeMap[node.expression].name ELSE node.declName
           found == findBinding(Cur, name)
       IN  /\ frame.nodeType \in {"AssignmentStatement", "VariableDeclaration"}
           /\ frame.stage = "assign"
           /\ Len(evalStack) > 0
           /\ found # 0
           /\ scopeStack[found].bindings[name].kind = "const"
           /\ scopeStack[found].bindings[name].initialized

\* C10: an assignment to a const binding after its first initialization yields
\* an 'error' Event with code 'const-reassign' and status 'error', whatever
\* the value, and the binding keeps its first value.
C10_ConstReassignFaults ==
    [][ConstWritePending =>
          /\ status' = "error"
          /\ Len(trace') = Len(trace) + 1
          /\ trace'[Len(trace')].type = "error"
          /\ trace'[Len(trace')].code = "const-reassign"
          /\ scopeStack' = scopeStack]_vars

\* the frame on top of the frame stack and the node it executes
TopFrame == ipStack[Len(ipStack)]
TopNode == astNodeMap[TopFrame.nodeId]
\* step() is about to hand the top frame to its handler
Working == ~LimitReached /\ status = "running" /\ ipStack # <<>>

\* the top frame is about to read, or to write, a name that no scope on the
\* scope stack declares
UndeclaredUsePending ==
    /\ Working
    /\ \/ /\ TopFrame.nodeType = "Identifier" /\ TopFrame.stage = "lookup"
          /\ findBinding(Cur, TopNode.name) = 0
       \/ /\ TopFrame.nodeType = "AssignmentStatement" /\ TopFrame.stage = "assign"
          /\ Len(evalStack) > 0
          /\ findBinding(Cur, astNodeMap[TopNode.expression].name) = 0

\* C11: reading or assigning an identifier that no scope declares yields an
\* 'error' Event with code 'undeclared-var' and status 'error', and no binding
\* is changed.
C11_UndeclaredUseFaults ==
    [][UndeclaredUsePending =>
          (/\ status' = "error"
           /\ lastError' = "undeclared-var"
           /\ Len(trace') = Len(trace) + 1
           /\ trace'[Len(trace')].type = "error"
           /\ trace'[Len(trace')].code = "undeclared-var"
           /\ scopeStack' = scopeStack)]_vars

\* C12: started with {maxSteps: 1} (other options at their defaults), a
\* program never reaches status 'done': its first step() call emits one Event
\* and the second ends the run with an 'error' Event with code 'max-steps'
\* and status 'error'.
C12_MaxStepsOneStopsRun ==
    (options.maxSteps = 1 /\ options.maxTraceLength = DefaultMaxTraceLength) =>
        /\ status # "done"
        /\ calls = 1 => (status = "running" /\ Len(trace) = 1)
        /\ calls >= 2 =>
              /\ status = "error"
              /\ lastError = "max-steps"
              /\ trace[2].type = "error"
              /\ trace[2].code = "max-steps"
              /\ \A i \in 1..Len(trace) : trace[i].type # "halt"

\* `let x = 5;` has been cut by the limit at its second step() call
C12_Witness ==
    /\ options.maxSteps = 1 /\ options.maxTraceLength = DefaultMaxTraceLength
    /\ astNodeMap = AstLetX5
    /\ calls = 2 /\ status = "error" /\ lastError = "max-steps"
    /\ Len(trace) = 2 /\ trace[2].code = "max-steps"

\* C13: the frame stack is empty if and only if status is 'done'.
C13_EmptyFrameStackIffDone == (ipStack = <<>>) <=> (status = "done")

\* the ids of the child nodes of the node with id n that the traversal of
\* buildAstNodeMap reaches (the Identifier of a declaration is held under the
\* key 'id' and is not one of them)
Children(n) ==
    LET node == astNodeMap[n]
    IN  ({node.body[i] : i \in 1..Len(node.body)}
            \cup {node.init, node.expression, node.left, node.right,
                  node.test, node.consequent, node.alternate, node.argument,
                  node.update, node.loopBody}) \ {0}

\* the ids of the nodes below the node with id n
RECURSIVE Below(_)
Below(n) == Children(n) \cup UNION {Below(c) : c \in Children(n)}

\* the index of the 'enter-scope' Event of the scope that the 'exit-scope'
\* Event at index k closes, 0 if there is none
OpeningOf(k) ==
    LET opens == {e \in 1..(k - 1) : /\ trace[e].type = "enter-scope"
                                     /\ trace[e].scopeId = trace[k].scopeId}
    IN  IF opens = {} THEN 0 ELSE CHOOSE e \in opens : \A f \in opens : f <= e

\* C14: every 'exit-scope' Event is immediately preceded by the
\* 'exit-statement' Event of the BlockStatement that opened the scope, and
\* every Event of a node of that block's body lies between the block's
\* 'enter-scope' and that 'exit-statement'.
C14_BlockExitOrdering ==
    \A k \in 1..Len(trace) :
        trace[k].type = "exit-scope" =>
            /\ k > 1
            /\ trace[k - 1].type = "exit-statement"
            /\ trace[k - 1].nodeType = "BlockStatement"
            /\ trace[k - 1].scopeId = trace[k].scopeId
            /\ LET e == OpeningOf(k)
                   b == trace[k - 1].nodeId
               IN  /\ e > 1
                   /\ trace[e - 1].type = "enter-statement"
                   /\ trace[e - 1].nodeId = b
                   /\ \A j \in 1..Len(trace) :
                         trace[j].nodeId \in Below(b) => (e < j /\ j < k - 1)

\* `{ { let a = 1; } }` has run to completion: both blocks have exited, the
\* inner one after the Events of its declaration
C14_Witness ==
    /\ astNodeMap = AstNested /\ status = "done"
    /\ Cardinality({k \in 1..Len(trace) : trace[k].type = "exit-scope"}) = 2
    /\ \E j \in 1..Len(trace) : trace[j].nodeId = 3 /\ trace[j].type = "exit-statement"

\* the top frame is a VariableDeclaration about to declare its name
DeclarePending ==
    Working /\ TopFrame.nodeType = "VariableDeclaration" /\ TopFrame.stage = "declare"
\* the innermost scope already binds that name
DeclareConflictPending ==
    DeclarePending /\ TopNode.declName \in DOMAIN currentScope(Cur).bindings

\* C15: a VariableDeclaration of a name that the innermost scope already binds
\* fails with code 'declare-conflict' and status 'error' and leaves every
\* binding as it was; a name bound only in an enclosing scope is declared
\* again in the innermost scope, the enclosing scopes staying unchanged; no
\* step removes or replaces a binding of a live scope.
C15_DeclareConflict ==
    [][/\ DeclareConflictPending =>
              (/\ status' = "error"
               /\ lastError' = "declare-conflict"
               /\ trace'[Len(trace')].type = "error"
               /\ trace'[Len(trace')].code = "declare-conflict"
               /\ scopeStack' = scopeStack)
       /\ (DeclarePending /\ ~DeclareConflictPending) =>
              (/\ lastError' # "declare-conflict"
               /\ Len(scopeStack') = Len(scopeStack)
               /\ \A i \in 1..(Len(scopeStack) - 1) : scopeStack'[i] = scopeStack[i]
               /\ status' = "running" =>
                     (/\ DOMAIN currentScope(Cur).bindings \cup {TopNode.declName}
                           = DOMAIN scopeStack'[Len(scopeStack)].bindings
                      /\ ~scopeStack'[Len(scopeStack)].bindings[TopNode.declName]
                              .initialized))
      ]_vars

DefaultOptions ==
    [maxSteps |-> DefaultMaxSteps, maxScopeDepth |-> DefaultMaxScopeDepth,
     maxTraceLength |-> DefaultMaxTraceLength]

\* what an expected Event of the tests compares: type, node type, name, value
EventShape(ev) ==
    [type |-> ev.type, nodeType |-> ev.nodeType, name |-> ev.name,
     value |-> IF ev.type = "assign" THEN ev.newValue ELSE ev.value]
Shape(type, nodeType, name, value) ==
    [type |-> type, nodeType |-> nodeType, name |-> name, value |-> value]

\* the expected Events of the complete run of `let x = 5;`
LetX5Events ==
    << Shape("enter-statement", "Program", "", Absent),
       Shape("enter-statement", "VariableDeclaration", "", Absent),
       Shape("eval-literal", "Literal", "", Num(5)),
       Shape("assign", "", "x", Num(5)),
       Shape("exit-statement", "VariableDeclaration", "", Absent),
       Shape("exit-statement", "Program", "", Absent),
       Shape("halt", "", "", Absent) >>

\* the index of the 'enter-statement' Event of node n before index k, 0 if none
EnterOf(n, k) ==
    LET es == {e \in 1..(k - 1) : trace[e].type = "enter-statement" /\ trace[e].nodeId = n}
    IN  IF es = {} THEN 0 ELSE CHOOSE e \in es : \A f \in es : f <= e

\* C16: whenever a VariableDeclaration with an initializer has emitted its
\* exit-statement, the trace holds, in this order, its enter-statement, then
\* only evaluation Events of the initializer's nodes, the last one being the
\* initializer's own, then one 'assign' Event of the declared name whose
\* newValue is the initializer's value, then the exit-statement; and the
\* complete run of `let x = 5;` is exactly the seven expected Events with
\* status 'done', reached by ten step() calls under the default options.
C16_DeclarationEvents ==
    /\ \A k \in 1..Len(trace) :
          LET v == astNodeMap[trace[k].nodeId]
              e == EnterOf(trace[k].nodeId, k)
          IN  (/\ trace[k].type = "exit-statement"
               /\ trace[k].nodeType = "VariableDeclaration"
               /\ v.init # 0) =>
                  /\ e > 0 /\ k - e >= 3
                  /\ trace[k - 1].type = "assign"
                  /\ trace[k - 1].name = v.declName
                  /\ trace[k - 2].nodeId = v.init
                  /\ trace[k - 1].newValue = trace[k - 2].value
                  /\ \A j \in (e + 1)..(k - 2) :
                        /\ trace[j].nodeId \in {v.init} \cup Below(v.init)
                        /\ trace[j].type \in {"eval-literal", "eval-identifier",
                                              "eval-binary"}
    /\ (astNodeMap = AstLetX5 /\ status = "done") =>
          [i \in 1..Len(trace) |-> EventShape(trace[i])] = LetX5Events
    /\ (astNodeMap = AstLetX5 /\ options = DefaultOptions /\ calls >= 10) =>
          status = "done"

\* `let x = 5;` has run to completion under the default options
C16_Witness ==
    /\ astNodeMap = AstLetX5 /\ options = DefaultOptions
    /\ status = "done" /\ calls = 10 /\ Len(trace) = 7
    /\ trace[4].type = "assign" /\ trace[4].newValue = Num(5)
    /\ trace[5].type = "exit-statement"

\* the scopes, by index in scopeStack, that bind name
Binders(name) == {i \in 1..Len(scopeStack) : name \in DOMAIN scopeStack[i].bindings}
\* the top frame is an Identifier about to look up a name that some scope binds
IdentifierLookupPending ==
    /\ Working
    /\ TopFrame.nodeType = "Identifier" /\ TopFrame.stage = "lookup"
    /\ Binders(TopNode.name) # {}

\* C17: the step that evaluates an Identifier bound in some scope pushes the
\* value of the innermost binding of the name on the value stack and appends
\* one 'eval-identifier' Event carrying the name, that value and, as
\* foundInScopeId, the id of the scope holding that binding (when the trace is
\* full no Event is appended).
C17_IdentifierResolvesInnermost ==
    [][IdentifierLookupPending =>
          (LET name == TopNode.name
               i == CHOOSE b \in Binders(name) : \A c \in Binders(name) : c <= b
               v == scopeStack[i].bindings[name].value
           IN  /\ evalStack' = Append(evalStack, v)
               /\ scopeStack' = scopeStack
               /\ IF Len(trace) < options.maxTraceLength
                  THEN /\ Len(trace') = Len(trace) + 1
                       /\ SubSeq(trace', 1, Len(trace)) = trace
                       /\ trace'[Len(trace')].type = "eval-identifier"
                       /\ trace'[Len(trace')].nodeId = TopFrame.nodeId
                       /\ trace'[Len(trace')].name = name
                       /\ trace'[Len(trace')].value = v
                       /\ trace'[Len(trace')].foundInScopeId = scopeStack[i].id
                       /\ status' = "running"
                  ELSE trace' = trace)]_vars

\* in `let x = 1; { let x = 2; x; }` the x read inside the block has just
\* resolved to the block's own binding while the global scope binds x to 1
C17_Witness ==
    /\ astNodeMap = AstShadowRead
    /\ Len(scopeStack) = 2
    /\ scopeStack[1].bindings["x"].value = Num(1)
    /\ Len(trace) > 0 /\ LastEvent.type = "eval-identifier"
    /\ LastEvent.value = Num(2) /\ LastEvent.foundInScopeId = 1
    /\ evalStack = << Num(2) >>

\* the index of the Event that reports the value of expression node n, 0 if none
EvalOf(n) ==
    LET es == {e \in 1..Len(trace) :
                  /\ trace[e].nodeId = n
                  /\ trace[e].type \in {"eval-literal", "eval-identifier", "eval-binary"}}
    IN  IF es = {} THEN 0 ELSE CHOOSE e \in es : TRUE
\* the indexes of the Events of node n and of the nodes below it
EventsWithin(n) == {j \in 1..Len(trace) : trace[j].nodeId \in {n} \cup Below(n)}

\* the top frame is a BinaryExpression about to apply its operator to two
\* operands that do not make it fault
ComputeOpPending ==
    /\ Working
    /\ TopFrame.nodeType = "BinaryExpression" /\ TopFrame.stage = "compute-op"
    /\ Len(evalStack) >= 2
    /\ TopNode.operator \in Operators
    /\ ~(TopNode.operator \in {"/", "%"} /\ evalStack[Len(evalStack)] = Num(0))

BranchDecisionPending ==
    /\ Working
    /\ TopFrame.nodeType = "IfStatement" /\ TopFrame.stage = "branch-decision"
    /\ Len(evalStack) > 0
\* the top frame is an IfStatement that has run its branch
IfDonePending ==
    Working /\ TopFrame.nodeType = "IfStatement" /\ TopFrame.stage = "done"
HasRoom == Len(trace) < options.maxTraceLength

WhilePending ==
    /\ Working
    /\ TopFrame.nodeType = "WhileStatement" /\ TopFrame.stage = "evaluate-test"

\* C20: the step of a WhileStatement that is to evaluate its test keeps the
\* run going and pushes the frame of the test expression, and no
\* WhileStatement ever ends the run with an 'error' Event.
C20_WhileEvaluatesTest ==
    /\ [][(WhilePending /\ HasRoom) =>
              (/\ status' = "running"
               /\ Len(ipStack') = Len(ipStack) + 1
               /\ ipStack'[Len(ipStack')].nodeId = TopNode.test)]_vars
    /\ [](\A k \in 1..Len(trace) :
            ~(trace[k].type = "error" /\ trace[k].nodeType = "WhileStatement"
                 /\ trace[k].code = "unsupported-node"))

\* the top frame is a ForStatement about to start
ForPending ==
    /\ Working
    /\ TopFrame.nodeType = "ForStatement" /\ TopFrame.stage = "evaluate-init"

\* C21: the step that starts a ForStatement keeps the run going and opens the
\* loop scope (one more scope on the scope stack, reported by 'enter-scope'),
\* and no ForStatement ever ends the run with an 'error' Event.
C21_ForOpensLoopScope ==
    /\ [][(ForPending /\ Len(trace) + 1 < options.maxTraceLength
              /\ Len(scopeStack) < options.maxScopeDepth) =>
              (/\ status' = "running"
               /\ Len(scopeStack') = Len(scopeStack) + 1
               /\ \E k \in (Len(trace) + 1)..Len(trace') :
                     trace'[k].type = "enter-scope")]_vars
    /\ [](\A k \in 1..Len(trace) :
            ~(trace[k].type = "error" /\ trace[k].nodeType = "ForStatement"
                 /\ trace[k].code = "unsupported-node"))

\* the node types that reach a frame and that the interpreter does not implement
UnimplementedTypes ==
    {"UnaryExpression", "AssignmentExpression", "WhileStatement", "ForStatement"}
\* the top frame is for a node type the interpreter does not implement
UnsupportedPending == Working /\ TopFrame.nodeType \in UnimplementedTypes

\* C22: a step whose top frame is for an unimplemented node type sets status
\* 'error' and appends exactly one 'error' Event with code 'unsupported-node',
\* and after such an Event the trace gains no Event of any node's execution.
C22_UnsupportedNodeFaults ==
    /\ [][UnsupportedPending =>
              (/\ status' = "error"
               /\ lastError' = "unsupported-node"
               /\ Len(trace') = Len(trace) + 1
               /\ trace'[Len(trace')].type = "error"
               /\ trace'[Len(trace')].code = "unsupported-node"
               /\ trace'[Len(trace')].nodeId = TopFrame.nodeId)]_vars
    /\ [](\A k \in 1..Len(trace) :
            (trace[k].type = "error" /\ trace[k].code = "unsupported-node") =>
                \A j \in (k + 1)..Len(trace) : trace[j].type = "error")

\* the Events of the trace other than 'max-steps' error Events
CountedEvents ==
    {k \in 1..Len(trace) : ~(trace[k].type = "error" /\ trace[k].code = "max-steps")}

\* C25: in every reachable state the trace holds at most maxSteps Events, the
\* 'max-steps' error Event not counted.
C25_MaxStepsCapsEvents == Cardinality(CountedEvents) <= options.maxSteps

\* the top frame is a BlockStatement about to open its scope while the scope
\* stack already holds maxScopeDepth scopes
BlockOpenAtDepthLimit ==
    /\ Working
    /\ TopFrame.nodeType = "BlockStatement" /\ TopFrame.stage = "enter"
    /\ Len(scopeStack) >= options.maxScopeDepth

\* C26: opening a block scope at the scope-depth limit pushes no scope and
\* emits no 'enter-scope' Event, sets status 'error' and emits an 'error' Event
\* whose code is 'max-scope-depth' (stated for the steps whose two Events fit
\* in the trace).
C26_ScopeDepthLimit ==
    [][(BlockOpenAtDepthLimit /\ Len(trace) + 1 < options.maxTraceLength) =>
          (/\ scopeStack' = scopeStack
           /\ \A k \in (Len(trace) + 1)..Len(trace') : trace'[k].type # "enter-scope"
           /\ status' = "error"
           /\ \E k \in (Len(trace) + 1)..Len(trace') :
                 trace'[k].type = "error" /\ trace'[k].code = "max-scope-depth")]_vars

\* C27: a step that has an Event to append to a trace already holding
\* maxTraceLength Events returns (it does not raise) with status 'error' and
\* the trace reports the fault by an 'error' Event with code 'trace-overflow';
\* the trace never holds more than maxTraceLength Events.
C27_TraceOverflowReported ==
    /\ [][(~HasRoom /\ lastError # "trace-overflow" /\ lastError' = "trace-overflow") =>
              (/\ lastResult' # "throw"
               /\ status' = "error"
               /\ \E k \in 1..Len(trace') :
                     trace'[k].type = "error" /\ trace'[k].code = "trace-overflow")]_vars
    /\ [](Len(trace) <= options.maxTraceLength)

\* the top frame is a BinaryExpression about to divide or take a remainder
\* with a right operand that is exactly 0
ZeroDivisorPending ==
    /\ Working
    /\ TopFrame.nodeType = "BinaryExpression" /\ TopFrame.stage = "compute-op"
    /\ Len(evalStack) >= 2
    /\ TopNode.operator \in {"/", "%"}
    /\ evalStack[Len(evalStack)] = Num(0)

\* C28: with a right operand of exactly 0, '/' fails with code 'div-by-zero'
\* and '%' with code 'mod-by-zero'; status becomes 'error', no 'eval-binary'
\* Event is emitted and no result is pushed on the value stack (stated for the
\* steps whose 'error' Event fits in the trace).
C28_ZeroDivisorCodes ==
    [][(ZeroDivisorPending /\ HasRoom) =>
          (/\ status' = "error"
           /\ lastError' = (IF TopNode.operator = "/" THEN "div-by-zero"
                                                     ELSE "mod-by-zero")
           /\ \A k \in (Len(trace) + 1)..Len(trace') : trace'[k].type # "eval-binary"
           /\ Len(evalStack') = Len(evalStack) - 2)]_vars

\* the value stack holds what the stage of the top frame is about to pop
OperandsPresent ==
    /\ (TopFrame.nodeType = "BinaryExpression" /\ TopFrame.stage = "compute-op")
          => Len(evalStack) >= 2
    /\ (TopFrame.nodeType = "IfStatement" /\ TopFrame.stage = "branch-decision")
          => Len(evalStack) >= 1
    /\ (TopFrame.nodeType \in {"VariableDeclaration", "AssignmentStatement"}
            /\ TopFrame.stage = "assign")
          => Len(evalStack) >= 1
\* no 'eval-stack' error has been raised
NoEvalStackError ==
    /\ lastError # "eval-stack"
    /\ \A k \in 1..Len(trace) :
          ~(trace[k].type = "error" /\ trace[k].code = "eval-stack")

\* C29 (as stated): in every reachable state whose top frame is a
\* BinaryExpression at 'compute-op' the value stack holds at least two values,
\* and at least one where it is an IfStatement at 'branch-decision' or a
\* declaration/assignment at 'assign'; the 'eval-stack' error is never raised
\* (stated for the states that no trace overflow has produced).
C29_OperandsAlwaysPresent ==
    /\ (ipStack # <<>> /\ lastError # "trace-overflow") => OperandsPresent
    /\ NoEvalStackError

\* C29 (amended): the same in every reachable state whose status is 'running';
\* a faulted run may rest on a frame whose operands the faulting step popped.
C29_OperandsPresentWhileRunning ==
    /\ (ipStack # <<>> /\ status = "running") => OperandsPresent
    /\ NoEvalStackError

\* a running state about to apply an inner operator on top of a pending left
\* operand: three values on the value stack
C29_Witness ==
    /\ status = "running" /\ ipStack # <<>>
    /\ TopFrame.nodeType = "BinaryExpression" /\ TopFrame.stage = "compute-op"
    /\ Len(evalStack) = 3

\* the node types of statements
StatementTypes ==
    {"Program", "BlockStatement", "VariableDeclaration", "ExpressionStatement",
     "AssignmentStatement", "IfStatement", "WhileStatement", "ForStatement"}
\* the step pops the top frame, which is a statement frame
StatementFramePopped ==
    /\ ipStack # <<>>
    /\ TopFrame.nodeType \in StatementTypes
    /\ ipStack' = SubSeq(ipStack, 1, Len(ipStack) - 1)
\* an ExpressionStatement is being executed
InExpressionStatement ==
    \E i \in 1..Len(ipStack) : ipStack[i].nodeType = "ExpressionStatement"

\* C30: the value stack is empty whenever the top frame is a statement frame
\* at its initial stage, whenever a step pops a statement frame, and when
\* status is 'done'; the step that ends an ExpressionStatement discards the
\* expression's value, and no step taken inside an ExpressionStatement changes
\* a binding.
C30_ValueStackBalanced ==
    /\ []((ipStack # <<>> /\ TopFrame.nodeType \in StatementTypes
              /\ TopFrame.stage = getInitialStage(TopFrame.nodeType))
            => evalStack = <<>>)
    /\ [](status = "done" => evalStack = <<>>)
    /\ [][StatementFramePopped => evalStack' = <<>>]_vars
    /\ [][(StatementFramePopped /\ TopFrame.nodeType = "ExpressionStatement")
              => Len(evalStack') = Len(evalStack) - 1]_vars
    /\ [][InExpressionStatement => scopeStack' = scopeStack]_vars

\* an ExpressionStatement whose expression computed a value has just ended
\* and the value stack is empty
C30_Witness ==
    /\ status = "running"
    /\ trace # <<>>
    /\ trace[Len(trace)].type = "exit-statement"
    /\ trace[Len(trace)].nodeType = "ExpressionStatement"
    /\ \E k \in 1..Len(trace) : trace[k].type = "eval-binary"
    /\ evalStack = <<>>

\* the parsed sources that are truncated or malformed
MalformedSources == {"1 +", "x =", "(", "let x = ;", "a @ b;"}

\* C23: no parse() call raises: every call returns a result whose ast is a
\* Program node, and for a malformed source the result holds a diagnostic in
\* errors.
C23_ParseNeverRaises ==
    \A k \in 1..Len(parseLog) :
        LET res == parseLog[k].result
        IN  /\ ~res.threw
            /\ res.root # 0
            /\ \E n \in 1..Len(res.ast) :
                  res.ast[n].id = res.root /\ res.ast[n].type = "Program"
            /\ parseLog[k].source \in MalformedSources => res.errors # <<>>

\* C24: every parse() call that returns allocates its node ids from 1 in
\* makeNode order, whatever calls were made before: no two nodes of its AST
\* share an id, and two calls on the same source and options return ASTs
\* with identical ids (identical ASTs).
C24_FreshNodeIds ==
    /\ \A k \in 1..Len(parseLog) :
          LET ast == parseLog[k].result.ast
          IN  /\ \A n \in 1..Len(ast) : ast[n].id = n
              /\ \A m, n \in 1..Len(ast) : m # n => ast[m].id # ast[n].id
    /\ \A j, k \in 1..Len(parseLog) :
          (parseLog[j].source = parseLog[k].source /\ parseLog[j].opts = parseLog[k].opts)
              => parseLog[j].result.ast = parseLog[k].result.ast

\* a source parsed twice with the parse of another source in between, each
\* call returning an AST of several nodes
C24_Witness ==
    /\ Len(parseLog) = 3
    /\ parseLog[1].source = parseLog[3].source
    /\ parseLog[2].source # parseLog[1].source
    /\ \A k \in 1..3 : ~parseLog[k].result.threw /\ Len(parseLog[k].result.ast) > 1

\* v is a number, a string, a boolean or null
InValueDomain(v) == v.k \in ValueKinds

\* C31: in every reachable state every value on the value stack, every value
\* or newValue carried by an eval-literal, eval-identifier, eval-binary or
\* assign Event and the value of every initialized binding is a number, a
\* string, a boolean or null (stated for the states that no trace overflow
\* has produced).
C31_ValueDomainClosed ==
    lastError # "trace-overflow" =>
    /\ \A i \in 1..Len(evalStack) : InValueDomain(evalStack[i])
    /\ \A k \in 1..Len(trace) :
          /\ trace[k].type \in {"eval-literal", "eval-identifier", "eval-binary"}
                => InValueDomain(trace[k].value)
          /\ trace[k].type = "assign" => InValueDomain(trace[k].newValue)
    /\ \A i \in 1..Len(scopeStack) :
          \A n \in DOMAIN scopeStack[i].bindings :
              scopeStack[i].bindings[n].initialized
                  => InValueDomain(scopeStack[i].bindings[n].value)

\* the maxDepth a parse() call works with
EffectiveMaxDepth(opts) == IF opts.maxDepth # 0 THEN opts.maxDepth ELSE DefaultMaxDepth
\* the Program node of a returned result
RootOf(res) == res.ast[CHOOSE n \in 1..Len(res.ast) : res.ast[n].id = res.root]
HasDiagnostic(res, msg) == \E e \in 1..Len(res.errors) : res.errors[e] = msg

\* C32: no statement of a parsed source nests deeper than two statements, so
\* every parse() call with maxDepth >= 2 that returns has no 'Max parse depth
\* exceeded' diagnostic, however many statements the source holds: the four
\* statements of '1; 2; 3; 4;' are all parsed with maxDepth 2.
C32_MaxDepthCountsNesting ==
    \A k \in 1..Len(parseLog) :
        LET res == parseLog[k].result
        IN  (EffectiveMaxDepth(parseLog[k].opts) >= 2 /\ ~res.threw) =>
                /\ ~HasDiagnostic(res, "Max parse depth exceeded")
                /\ parseLog[k].source = "1; 2; 3; 4;" => Len(RootOf(res).body) = 4

\* the nodes of a result of the given type
NodesOfType(res, type) == {n \in 1..Len(res.ast) : res.ast[n].type = type}
\* node n of the result is the Identifier of the given name
IsIdentifier(res, n, name) ==
    n # 0 /\ res.ast[n].type = "Identifier" /\ res.ast[n].name = name
\* node n of the result is the BinaryExpression 'l op r' of two identifiers
IsBinaryOf(res, n, op, l, r) ==
    /\ n # 0
    /\ res.ast[n].type = "BinaryExpression" /\ res.ast[n].operator = op
    /\ IsIdentifier(res, res.ast[n].left, l) /\ IsIdentifier(res, res.ast[n].right, r)

\* C33: 'a op b;' parses, for every operator of the precedence table, into
\* one BinaryExpression carrying op over a and b; 'a op1 b op2 c;' parses
\* into two, the looser-binding operator at the root (the later one when both
\* bind alike).
C33_OperatorsParsed ==
    \A k \in 1..Len(parseLog) :
        LET res == parseLog[k].result
            stmt == RootOf(res).body[1]
            top == res.ast[stmt].expression
        IN  \A op1 \in BinaryOperators, op2 \in BinaryOperators \cup {""} :
                parseLog[k].source = OperatorSource(op1, op2) =>
                    /\ ~res.threw
                    /\ res.errors = <<>>
                    /\ Len(RootOf(res).body) = 1
                    /\ IF op2 = "" THEN
                           /\ Cardinality(NodesOfType(res, "BinaryExpression")) = 1
                           /\ IsBinaryOf(res, top, op1, "a", "b")
                       ELSE
                           /\ Cardinality(NodesOfType(res, "BinaryExpression")) = 2
                           /\ IF PRECEDENCE(op2) > PRECEDENCE(op1)
                              THEN /\ res.ast[top].operator = op1
                                   /\ IsIdentifier(res, res.ast[top].left, "a")
                                   /\ IsBinaryOf(res, res.ast[top].right, op2, "b", "c")
                              ELSE /\ res.ast[top].operator = op2
                                   /\ IsBinaryOf(res, res.ast[top].left, op1, "a", "b")
                                   /\ IsIdentifier(res, res.ast[top].right, "c")

\* the expected Events of the complete run of `let x; x = 7;`
DeclThenAssignEvents ==
    << Shape("enter-statement", "Program", "", Absent),
       Shape("enter-statement", "VariableDeclaration", "", Absent),
       Shape("exit-statement", "VariableDeclaration", "", Absent),
       Shape("enter-statement", "AssignmentStatement", "", Absent),
       Shape("eval-literal", "Literal", "", Num(7)),
       Shape("assign", "", "x", Num(7)),
       Shape("exit-statement", "AssignmentStatement", "", Absent),
       Shape("exit-statement", "Program", "", Absent),
       Shape("halt", "", "", Absent) >>

\* the name an AssignmentStatement frame writes
AssignedName == astNodeMap[TopNode.expression].name
\* the top frame is an AssignmentStatement about to store the value on top of
\* the value stack in a binding that no assignment has initialized yet
FirstAssignPending ==
    /\ ~LimitReached /\ status = "running" /\ ipStack # <<>>
    /\ TopFrame.nodeType = "AssignmentStatement" /\ TopFrame.stage = "assign"
    /\ evalStack # <<>>
    /\ \E i \in 1..Len(scopeStack) :
          /\ AssignedName \in DOMAIN scopeStack[i].bindings
          /\ ~scopeStack[i].bindings[AssignedName].initialized
          /\ \A j \in (i + 1)..Len(scopeStack) :
                AssignedName \notin DOMAIN scopeStack[j].bindings

\* C34: (a) a VariableDeclaration without an initializer that has passed its
\* 'declare' stage has left, in the current scope, a binding of its name with
\* initialized = false, and when it has emitted its exit-statement the Event
\* just before it is its own enter-statement, so no 'assign' Event lies
\* between; (b) the step of the first later AssignmentStatement to such a
\* binding, of kind 'let' or 'const', keeps status 'running', appends one
\* 'assign' Event with the name and the new value and leaves the binding
\* initialized with that value (stated for a trace with room for the Event);
\* (c) the complete run of `let x; x = 7;` is exactly the nine expected Events
\* with x = 7 and status 'done'.
C34_LateInitialization ==
    /\ [](/\ (/\ status = "running" /\ ipStack # <<>>
              /\ TopFrame.nodeType = "VariableDeclaration" /\ TopFrame.stage = "done"
              /\ TopNode.init = 0) =>
                 /\ TopNode.declName \in DOMAIN scopeStack[Len(scopeStack)].bindings
                 /\ ~scopeStack[Len(scopeStack)].bindings[TopNode.declName].initialized
          /\ \A k \in 1..Len(trace) :
                (/\ trace[k].type = "exit-statement"
                 /\ trace[k].nodeType = "VariableDeclaration"
                 /\ astNodeMap[trace[k].nodeId].init = 0) =>
                    /\ k > 1
                    /\ trace[k - 1].type = "enter-statement"
                    /\ trace[k - 1].nodeId = trace[k].nodeId
          /\ (astNodeMap = AstDeclThenAssign /\ status = "done") =>
                /\ [i \in 1..Len(trace) |-> EventShape(trace[i])] = DeclThenAssignEvents
                /\ scopeStack[1].bindings["x"].value = Num(7)
                /\ scopeStack[1].bindings["x"].initialized)
    /\ [][(FirstAssignPending /\ Len(trace) < options.maxTraceLength) =>
             (LET name == AssignedName
                  i == CHOOSE b \in 1..Len(scopeStack) :
                          /\ name \in DOMAIN scopeStack[b].bindings
                          /\ \A j \in (b + 1)..Len(scopeStack) :
                                name \notin DOMAIN scopeStack[j].bindings
                  val == evalStack[Len(evalStack)]
              IN  /\ status' = "running"
                  /\ Len(trace') = Len(trace) + 1
                  /\ SubSeq(trace', 1, Len(trace)) = trace
                  /\ trace'[Len(trace')].type = "assign"
                  /\ trace'[Len(trace')].name = name
                  /\ trace'[Len(trace')].newValue = val
                  /\ scopeStack'[i].bindings[name].initialized
                  /\ scopeStack'[i].bindings[name].value = val
                  /\ scopeStack'[i].bindings[name].kind = scopeStack[i].bindings[name].kind)]_vars

\* the first assignment to the const binding of `const c; c = 1; c = 2;` has
\* been made: c is initialized to 1 and the run goes on
C34_Witness ==
    /\ astNodeMap = AstConstLate
    /\ status = "running"
    /\ "c" \in DOMAIN scopeStack[1].bindings
    /\ scopeStack[1].bindings["c"].kind = "const"
    /\ scopeStack[1].bindings["c"].initialized
    /\ scopeStack[1].bindings["c"].value = Num(1)
    /\ \E k \in 2..Len(trace) :
          /\ trace[k].type = "assign" /\ trace[k].name = "c"
          /\ \E e \in 1..(k - 1) : /\ trace[e].type = "exit-statement"
                                   /\ trace[e].nodeType = "VariableDeclaration"

\* the indexes of the trace's Events of a type
EventsOfType(type) == {k \in 1..Len(trace) : trace[k].type = type}

\* C35: in every reachable state, status 'done' implies that the last Event
\* of the trace is 'halt' and that the trace holds exactly one 'halt'; status
\* 'error' implies that the last Event is an 'error' Event whose code is the
\* code of lastError; while status is 'running' the trace holds neither a
\* 'halt' nor an 'error' Event.
C35_TraceEndsWithTerminalEvent ==
    /\ status = "done" =>
          /\ trace # <<>>
          /\ trace[Len(trace)].type = "halt"
          /\ Cardinality(EventsOfType("halt")) = 1
    /\ status = "error" =>
          /\ trace # <<>>
          /\ trace[Len(trace)].type = "error"
          /\ trace[Len(trace)].code = lastError
    /\ status = "running" =>
          /\ EventsOfType("halt") = {}
          /\ EventsOfType("error") = {}

\* the array objects an ExecutionState object refers to
ArraysOf(h, ref) ==
    {h[ref].ipStack, h[ref].evalStack, h[ref].scopeStack, h[ref].trace, h[ref].stats}

\* C36: (a) a snapshot that stateHistory keeps shows the same status,
\* stepCounter, lastError, frame stack, value stack, scope stack with its
\* bindings, trace and stats after every handler as before it, and the
\* snapshot that handleStep saves shows the state as it was before the step;
\* (b) a snapshot is an object of its own that shares none of its arrays with
\* the current state and uses the same AST object; (c) right after a
\* handleStepBack that follows a handleStep the current state shows what it
\* showed before that step.
C36_SnapshotsIndependent ==
    /\ [][/\ \A k \in 1..Len(stateHistory) :
                (k <= Len(stateHistory') /\ stateHistory'[k] = stateHistory[k]) =>
                    View(heap', stateHistory[k]) = View(heap, stateHistory[k])
          /\ (uiLog'.handler = "handleStep" /\ uiLog'.calls = uiLog.calls + 1) =>
                View(heap', stateHistory'[Len(stateHistory')]) = View(heap, executionState)]_vars
    /\ [](/\ \A k \in 1..Len(stateHistory) :
                /\ stateHistory[k] # executionState
                /\ ArraysOf(heap, stateHistory[k]) \cap ArraysOf(heap, executionState) = {}
                /\ heap[stateHistory[k]].astNodeMap = heap[executionState].astNodeMap
          /\ (uiLog.handler = "handleStepBack" /\ uiLog.before = "handleStep") =>
                View(heap, executionState) = uiLog.pre)

\* handleStepBack has just undone a handleStep that came after the binding of
\* x was declared, and an older snapshot is still kept
C36_Witness ==
    /\ uiLog.handler = "handleStepBack" /\ uiLog.before = "handleStep"
    /\ executionState # 0
    /\ stateHistory # <<>>
    /\ "x" \in DOMAIN heap[heap[executionState].scopeStack][1].bindings
    /\ Len(heap[heap[executionState].trace]) >= 2

\* C37: (a) every step() call made while status is 'running' and stepCounter
\* is below maxSteps raises stepCounter by exactly one, and the call that
\* finds stepCounter at maxSteps ends the run with status 'error'; (b) while status is 'running' every
\* call made so far has been counted, so at most maxSteps calls have been
\* made; (c) hence status has left 'running' once maxSteps + 1 calls have
\* been made, and under a step limit below the call bound the loop
\* `while (status === 'running') step()` ends.
C37_RunTerminates ==
    /\ [][/\ (status = "running" /\ stepCounter < options.maxSteps) =>
                   (stepCounter' = stepCounter + 1)
          /\ (status = "running" /\ stepCounter >= options.maxSteps) =>
                   (status' = "error" /\ stepCounter' = stepCounter)]_vars
    /\ [](/\ status = "running" => (stepCounter = calls /\ calls <= options.maxSteps)
          /\ calls >= options.maxSteps + 1 => status # "running")
    /\ (options.maxSteps < MaxCalls) => <>(status # "running")

\* the loop has ended at the step limit: the (maxSteps + 1)-th call found
\* the counter at maxSteps after maxSteps counted calls
C37_Witness ==
    /\ options.maxSteps = StepLimitBound
    /\ calls = StepLimitBound + 1
    /\ stepCounter = StepLimitBound
    /\ status = "error" /\ lastError = "max-steps"

\* C38: in every reachable state the scope stack holds between 1 and
\* maxScopeDepth scopes, the scope at index i (counted from 0) has id i and
\* parentId i - 1 (null for the global scope at index 0), and when status is
\* 'done' only the global scope is left and the trace holds as many
\* 'exit-scope' as 'enter-scope' Events.
C38_ScopeStackWellFormed ==
    /\ Len(scopeStack) >= 1
    /\ Len(scopeStack) <= options.maxScopeDepth
    /\ \A i \in 1..Len(scopeStack) :
          /\ scopeStack[i].id = i - 1
          /\ scopeStack[i].parentId = i - 2
    /\ status = "done" =>
          /\ Len(scopeStack) = 1
          /\ Cardinality({k \in 1..Len(trace) : trace[k].type = "enter-scope"})
               = Cardinality({k \in 1..Len(trace) : trace[k].type = "exit-scope"})

\* a run that entered nested scopes has ended with the global scope alone
C38_Witness ==
    /\ status = "done"
    /\ Len(scopeStack) = 1
    /\ Cardinality({k \in 1..Len(trace) : trace[k].type = "enter-scope"}) >= 2

\* the bindings of a scope stack: each with the index of its scope and its name
BindingsOf(scopes) ==
    UNION {{<<i, name, scopes[i].bindings[name]>> : name \in DOMAIN scopes[i].bindings} :
              i \in 1..Len(scopes)}

\* the fault codes of undeclared-var, const-reassign, declare-conflict,
\* division or modulo by zero, unsupported node, scope-depth and step limit
ProgramFaults ==
    {"undeclared-var", "const-reassign", "declare-conflict", "div-by-zero",
     "unsupported-node", "max-depth", "max-steps"}

\* C39: a step() call that takes status from 'running' to 'error' with one
\* of these fault codes leaves the bindings of every scope as they were: the
\* same scopes hold the same names with the same values, kinds and
\* initialized flags.
C39_FaultKeepsBindings ==
    [][(status = "running" /\ status' = "error" /\ lastError' \in ProgramFaults) =>
          (BindingsOf(scopeStack') = BindingsOf(scopeStack))]_vars

\* a run has faulted with a program fault while bindings existed
C39_Witness ==
    /\ status = "error"
    /\ lastError \in {"const-reassign", "declare-conflict", "div-by-zero"}
    /\ BindingsOf(scopeStack) # {}

\* C40: no step() call on an AST that parse returned, with or without
\* diagnostics, raises a host exception, and a run that is no longer
\* 'running' has status 'done' or 'error'.
C40_NoHostException ==
    /\ lastResult # "throw"
    /\ status \in {"running", "done", "error"}

====
